---- MODULE Spec2Model ----
(***************************************************************************)
(* RGM screen sharing: the framed streaming session between the sender     *)
(* (src/src/sender.cpp) and the receiver (src/src/receiver.cpp), and the   *)
(* SSDP discovery client (src/src/discover.cpp).                           *)
(*                                                                         *)
(* Spec         : one producer at a time streaming to the consumer's       *)
(*                accept loop and handleClientConnection.                  *)
(* SpecDiscover : one pass of discoverReceivers over a stream of incoming  *)
(*                datagrams.                                               *)
(***************************************************************************)
EXTENDS Integers, Sequences, FiniteSets, TLC

\* ------------------------------------------------------------------------
\* Sizes.  The receiver is compiled for SCREEN_WIDTH x SCREEN_HEIGHT pixels
\* (1280 x 720 in the source); the model scales the picture down so that a
\* frame is a few bytes long.
\* ------------------------------------------------------------------------
SCREEN_WIDTH == 1

SCREEN_HEIGHT == 1

BYTES_PER_PIXEL == 3

TARGET_FPS == 60

\* frames one producer sends before its user stops it
MaxFrames == 2

\* bytes the connection holds in flight (socket buffers)
MaxWire == 4

\* connections the consumer serves in one run
MaxSessions == 2

Min(a, b) == IF a < b THEN a ELSE b

\* std::vector<uint8_t> frame(SCREEN_WIDTH * SCREEN_HEIGHT * BYTES_PER_PIXEL)
FrameBytes == SCREEN_WIDTH * SCREEN_HEIGHT * BYTES_PER_PIXEL

\* the resolutions a producer's screen can have: the receiver's own, and a
\* wider one (getScreenDimensions reads it from the display)
SenderDims == { <<SCREEN_WIDTH, SCREEN_HEIGHT>>, <<SCREEN_WIDTH + 1, SCREEN_HEIGHT>> }

\* what a producer with no picture to send puts into its handshake: a zero
\* width, or a zero height beside any width
DegenerateDims == { <<0, SCREEN_HEIGHT>>, <<FrameBytes, 0>> }

\* pictures captureScreen can return: byte i of the picture is seed + i
Seeds == {16, 64}

captureScreen(seed, w, h) == [i \in 1..(w * h * BYTES_PER_PIXEL) |-> seed + i]

\* the value stored as it is on a little-endian host, without htonl
htonl_HostOrder(v) ==
    << v % 256, (v \div 256) % 256, (v \div 65536) % 256, (v \div 16777216) % 256 >>

\* htonl laid out in memory: the four bytes of v, most significant first
htonl(v) ==
    << (v \div 16777216) % 256, (v \div 65536) % 256, (v \div 256) % 256, v % 256 >>

\* ntohl of four bytes of memory
ntohl(b) == b[1] * 16777216 + b[2] * 65536 + b[3] * 256 + b[4]

\* struct { width; height; fps } handshake, 12 bytes on the wire
HandshakeBytes(w, h) == htonl(w) \o htonl(h) \o htonl(TARGET_FPS)

\* values an uninitialised byte of net_frame_size can hold, among them the
\* bytes the previous iteration left in the same stack slot
UninitBytes == {0, FrameBytes % 256}

VARIABLES
    \* ---- producer (sender.cpp main) ----
    ppc,            \* "idle" | "handshake" | "size" | "data" | "exit"
    p_hs,           \* this producer sends the 12-byte handshake
    p_dims,         \* <<SCREEN_WIDTH, SCREEN_HEIGHT>> of the producer
    p_buf,          \* sendAll: data
    total_sent,     \* sendAll: total_sent
    p_frame,        \* the frame captured in this iteration
    frames_sent,
    total_bytes,
    sentFrames,     \* history: payloads completely sent on this connection
    p_out,          \* history: every byte the socket accepted on this connection
    p_tuned,        \* TCP_NODELAY and SO_SNDBUF were set on the socket
    p_cut,          \* history: the producer went away inside its handshake
    attempts,       \* history: calls of connection.connect in this run
    report,         \* what the final statistics printed: << >> or << [frames, bytes] >>
    \* ---- connection ----
    wire,           \* bytes sent and not yet received
    pEnd,           \* producer's socket: "none" | "open" | "closed"
    cEnd,           \* consumer's side: "none" | "backlog" | "open" | "closed"
    \* ---- consumer (receiver.cpp main, handleClientConnection) ----
    cpc,            \* "main" | "select" | "session" | "recvSize" | "recvData" | "close" |
                    \* "shutdown" | "join" | "done" | "return1"
    g_running,
    streaming,
    frame,          \* the frame buffer
    frame_size,     \* ntohl(net_frame_size) of the current iteration
    total_received,
    frames_received,
    rendered,       \* history: what SDL_UpdateTexture was given, and when
    endReason,      \* why the session loop ended
    prefixRead,     \* history: bytes the last recv of the length prefix returned
    sessions,       \* connections accepted so far
    polled,         \* history: what SDL_PollEvent handed to the last turn, until its recv
    userQuit,       \* history: a quit event has been handled
    server_sock,    \* the listening socket: "none" | "open" | "closed"
    ssdp_joined,    \* history: ssdp_thread.join() has returned
    listenq,        \* connections waiting behind the current one on server_sock
    clients_open,   \* accepted client sockets not yet closed
    \* ---- discovery client (discover.cpp discoverReceivers) ----
    dpc,            \* "off" | "start" | "search" | "recv" | "done"
    msearch_sent,   \* i of the M-SEARCH loop
    response_count,
    discovered_receivers,
    sockOpen,       \* the UDP socket is open
    pending,        \* a datagram waits in the socket's receive buffer
    senders,        \* the datagrams the network carries during this pass
    listening,      \* the TCP endpoints that accept connections
    accepted,       \* history: every emplace_back, with the datagram behind it
    tested,         \* history: the <<ip, port>> given to testTcpConnection
    established,    \* history: the endpoints a TCP connection was made to
    noLocFrom,      \* history: sources of success responses without LOCATION
    testTrouble,    \* history: a test ran out of sockets or out of time
    startFailure,   \* history: the step of the set-up that failed, or "none"
    lastTest,       \* history: the last testTcpConnection, what it met and returned
    msearch_failed, \* history: a sendto of the M-SEARCH loop has failed
    \* ---- discovery server (receiver.cpp ssdpAdvertisementThread) ----
    apc,            \* the thread's position, "off" when it is not modelled
    rpc,            \* the responder's position: "none" | "loop" | "recv" | "check" | "reply" | "done"
    response_sock,  \* "none" | "open" | "closed"
    notify_sock,    \* "none" | "open" | "closed"
    sleep_i,        \* i of the sleep loop
    notify_count,
    inbox,          \* datagrams waiting on response_sock
    request,        \* what the last recvfrom returned: << >> or << datagram >>
    heard,          \* history: the datagrams recvfrom has returned
    handled,        \* history: those the responder went on to look at
    sentResponses,  \* history: the destination of every response sent
    recvAfterStop,  \* history: recvfrom calls that returned after the flag was cleared
    sleepsAfterStop,\* history: sleep increments that ended after the flag was cleared
    usedClosed,     \* history: the responder used response_sock after its close
    sentAfterStop,  \* history: responses and NOTIFYs sent after the flag was cleared,
                    \* kept until the thread returns
    ssdpFailure,    \* history: the resource the discovery server failed to get, or "none"
    \* ---- one call of NetworkSocket::sendAll (sender.cpp) ----
    sa_pc,          \* "off" | "loop" | "returned"
    sa_running,     \* the sender's g_running
    sa_ret,         \* what sendAll returned
    sa_failed,      \* history: a ::send returned 0 or less
    \* ---- the launcher (app.cpp main, showMenu) ----
    lpc,            \* "off" | "start" | "menu" | "while" | "getline" | "switch" | "run" |
                    \* "returned"
    choice,         \* showMenu: choice
    lines,          \* history: the lines std::getline has read in this run
    menu_ret,       \* history: what the last showMenu returned: << >> or << value >>
    started,        \* history: the programs started, each with the lines read before it
    invalid_shown,  \* history: the last line was answered with "Invalid choice"
    main_ret,       \* what main returned: << >> or << value >>
    \* ---- one NetworkSocket object (sender.cpp) ----
    ns_sock,        \* the member sock: -1 or a descriptor
    ns_ret,         \* what the last connect returned: << >> or << value >>
    ns_calls        \* history: the calls of connect, with what they met and left

svars == << ppc, p_hs, p_dims, p_buf, total_sent, p_frame, frames_sent, total_bytes,
            sentFrames, p_out, p_tuned, p_cut, attempts, report, wire, pEnd, cEnd,
            cpc, g_running, streaming, frame,
            frame_size, total_received, frames_received, rendered, endReason,
            prefixRead, sessions, polled, userQuit, server_sock, ssdp_joined,
            listenq, clients_open >>

\* the consumer's variables that only main and the session loop write
mvars == << polled, userQuit, server_sock, ssdp_joined, listenq, clients_open >>

dvars == << dpc, msearch_sent, response_count, discovered_receivers, sockOpen,
            pending, senders, listening, accepted, tested, established,
            noLocFrom, testTrouble, startFailure, lastTest, msearch_failed >>

avars == << apc, rpc, response_sock, notify_sock, sleep_i, notify_count, inbox,
            request, heard, handled, sentAfterStop, sentResponses, recvAfterStop, sleepsAfterStop,
            usedClosed, ssdpFailure >>

savars == << sa_pc, sa_running, sa_ret, sa_failed >>

\* the variables of the parts that are modelled on their own
lvars == << lpc, choice, lines, menu_ret, started, invalid_shown, main_ret >>

nvars == << ns_sock, ns_ret, ns_calls >>

xvars == << savars, lvars, nvars >>

vars == << svars, dvars, avars, xvars >>

\* ------------------------------------------------------------------------
\* Initial states
\* ------------------------------------------------------------------------
InitLocals ==
    /\ ppc = "idle"
    /\ p_hs = FALSE
    /\ p_dims = <<SCREEN_WIDTH, SCREEN_HEIGHT>>
    /\ p_buf = <<>>
    /\ total_sent = 0
    /\ p_frame = <<>>
    /\ frames_sent = 0
    /\ total_bytes = 0
    /\ sentFrames = <<>>
    /\ p_out = <<>>
    /\ p_tuned = FALSE
    /\ p_cut = FALSE
    /\ attempts = 0
    /\ report = <<>>
    /\ wire = <<>>
    /\ pEnd = "none"
    /\ cEnd = "none"
    /\ g_running = TRUE
    /\ streaming = FALSE
    /\ frame = <<>>
    /\ frame_size = 0
    /\ total_received = 0
    /\ frames_received = 0
    /\ rendered = <<>>
    /\ endReason = "none"
    /\ prefixRead = 0
    /\ sessions = 0
    /\ polled = "none"
    /\ userQuit = FALSE
    /\ ssdp_joined = FALSE
    /\ listenq = 0
    /\ clients_open = 0

\* the receiver's main waiting in its accept loop, the server socket listening
InitSession ==
    /\ InitLocals
    /\ cpc = "select"
    /\ server_sock = "open"

\* the receiver's main before std::thread ssdp_thread(ssdpAdvertisementThread)
InitMain ==
    /\ InitLocals
    /\ cpc = "main"
    /\ server_sock = "none"

IdleDiscover ==
    /\ dpc = "off"
    /\ msearch_sent = 0
    /\ response_count = 0
    /\ discovered_receivers = <<>>
    /\ sockOpen = FALSE
    /\ pending = FALSE
    /\ senders = {}
    /\ listening = {}
    /\ accepted = <<>>
    /\ tested = {}
    /\ established = {}
    /\ noLocFrom = {}
    /\ testTrouble = FALSE
    /\ startFailure = "none"
    /\ lastTest = <<>>
    /\ msearch_failed = FALSE

IdleSsdp ==
    /\ apc = "off"
    /\ rpc = "none"
    /\ response_sock = "none"
    /\ notify_sock = "none"
    /\ sleep_i = 0
    /\ notify_count = 0
    /\ inbox = <<>>
    /\ request = <<>>
    /\ heard = <<>>
    /\ handled = <<>>
    /\ sentAfterStop = [responses |-> 0, notifies |-> 0]
    /\ sentResponses = <<>>
    /\ recvAfterStop = 0
    /\ sleepsAfterStop = 0
    /\ usedClosed = FALSE
    /\ ssdpFailure = "none"

IdleSendAll ==
    /\ sa_pc = "off"
    /\ sa_running = TRUE
    /\ sa_ret = FALSE
    /\ sa_failed = FALSE

IdleLauncher ==
    /\ lpc = "off"
    /\ choice = -1
    /\ lines = <<>>
    /\ menu_ret = <<>>
    /\ started = <<>>
    /\ invalid_shown = FALSE
    /\ main_ret = <<>>

\* NetworkSocket(): sock(-1)
IdleSocket ==
    /\ ns_sock = -1
    /\ ns_ret = <<>>
    /\ ns_calls = <<>>

Init == InitSession /\ IdleDiscover /\ IdleSsdp /\ IdleSendAll /\ IdleLauncher /\ IdleSocket

\* ------------------------------------------------------------------------
\* Producer: sender.cpp main
\* ------------------------------------------------------------------------

\* the data the streaming loop hands to sendAll first in an iteration:
\* captureScreen, then the length prefix
StartFrame(seed) ==
    /\ p_frame' = captureScreen(seed, p_dims'[1], p_dims'[2])
    /\ p_buf' = htonl(Len(p_frame'))
    /\ total_sent' = 0
    /\ ppc' = "size"

\* connection.connect(...) on a fresh NetworkSocket; a successful connect is
\* followed by the handshake (sender.cpp main) or, for the repository's
\* senders without a handshake, directly by the first frame
ProducerConnect ==
    /\ ppc = "idle"
    /\ cEnd = "none"
    /\ cpc \in {"select", "session", "recvSize", "recvData", "close"}
    /\ sessions < MaxSessions
    /\ UNCHANGED << frames_sent, total_bytes, sentFrames, p_cut, report >>
    /\ attempts' = attempts + 1
    /\ \/ \* connected: TCP_NODELAY, SO_SNDBUF, return true
          /\ pEnd' = "open"
          /\ cEnd' = "backlog"
          /\ wire' = <<>>
          /\ p_out' = <<>>
          /\ p_tuned' = TRUE
          /\ \E hs \in BOOLEAN, d \in SenderDims \cup DegenerateDims :
                /\ d \in DegenerateDims => hs
                /\ p_hs' = hs
                /\ p_dims' = d
                /\ IF hs
                     THEN /\ p_buf' = HandshakeBytes(d[1], d[2])
                          /\ total_sent' = 0
                          /\ ppc' = "handshake"
                          /\ p_frame' = <<>>
                     ELSE \E seed \in Seeds : StartFrame(seed)
       \/ \* connect returned false: return 1
          /\ ppc' = "exit"
          /\ pEnd' = "none"
          /\ UNCHANGED << cEnd, wire, p_hs, p_dims, p_buf, total_sent, p_frame, p_out,
                          p_tuned >>
    /\ UNCHANGED << cpc, g_running, streaming, frame, frame_size, total_received,
                    frames_received, rendered, endReason, prefixRead, sessions, mvars >>
    /\ UNCHANGED << dvars, avars, xvars >>

\* total_bytes += 4 + frame_size, without the prefix
BytesOfFrame_PayloadOnly(size) == size

\* total_bytes += 4 + frame_size
BytesOfFrame(size) == 4 + size

\* what main does when sendAll has returned true; out is what the socket
\* has accepted so far
AfterSendAll(out) ==
    CASE ppc = "handshake" ->
            /\ \E seed \in Seeds : StartFrame(seed)
            /\ p_out' = out
            /\ UNCHANGED << frames_sent, total_bytes, sentFrames, pEnd >>
      [] ppc = "size" ->
            /\ p_buf' = p_frame
            /\ total_sent' = 0
            /\ ppc' = "data"
            /\ p_out' = out
            /\ UNCHANGED << p_frame, frames_sent, total_bytes, sentFrames, pEnd >>
      [] ppc = "data" ->
            /\ frames_sent' = frames_sent + 1
            /\ total_bytes' = total_bytes + BytesOfFrame(Len(p_frame))
            /\ sentFrames' = Append(sentFrames, p_frame)
            /\ IF frames_sent + 1 < MaxFrames
                 THEN /\ \E seed \in Seeds : StartFrame(seed)
                      /\ p_out' = out
                      /\ UNCHANGED pEnd
                 ELSE /\ ppc' = "exit"
                      /\ pEnd' = "closed"
                      /\ p_buf' = <<>>
                      /\ total_sent' = 0
                      /\ p_frame' = <<>>
                      /\ p_out' = <<>>

\* while (total_sent < size && g_running)
SendAllContinues(size, total, running) == total < size /\ running

\* sendAll ending in return true
SendAllResult_True(size, total) == TRUE

\* return total_sent == size;
SendAllResult(size, total) == total = size

\* duration_cast<seconds>(end_time - last_time): whole seconds the loop ran
ElapsedSeconds == {0, 1}

\* the final statistics: "Frames sent" always, "Total data" only inside
\* if (total_seconds > 0)
FinalStatistics(frames, bytes, total_seconds) ==
    [frames |-> << frames >>,
     bytes  |-> IF total_seconds > 0 THEN << bytes >> ELSE << >>]

\* one ::send call of NetworkSocket::sendAll; the sender's g_running is
\* never cleared
ProducerSend ==
    /\ ppc \in {"handshake", "size", "data"}
    /\ pEnd = "open"
    /\ UNCHANGED << p_hs, p_dims, cEnd, p_tuned, p_cut, attempts >>
    /\ \/ \* nothing to send (size 0): the loop is not entered, return true
          /\ ~SendAllContinues(Len(p_buf), total_sent, TRUE)
          /\ AfterSendAll(p_out)
          /\ UNCHANGED << wire, report >>
       \/ \* send accepts sent > 0 bytes
          /\ cEnd \in {"backlog", "open"}
          /\ UNCHANGED report
          /\ \E sent \in 1..Min(Len(p_buf) - total_sent, MaxWire - Len(wire)) :
                /\ wire' = wire \o SubSeq(p_buf, total_sent + 1, total_sent + sent)
                /\ IF ~SendAllContinues(Len(p_buf), total_sent + sent, TRUE)
                     THEN AfterSendAll(p_out \o SubSeq(p_buf, total_sent + 1,
                                                       total_sent + sent))
                     ELSE /\ total_sent' = total_sent + sent
                          /\ p_out' = p_out \o SubSeq(p_buf, total_sent + 1,
                                                      total_sent + sent)
                          /\ UNCHANGED << ppc, p_buf, p_frame, frames_sent,
                                          total_bytes, sentFrames, pEnd >>
       \/ \* send returns 0 or an error: the peer has closed.  sendAll returns
          \* false: return 1 from the handshake, break and the final
          \* statistics from the loop
          /\ cEnd = "closed"
          /\ ppc' = "exit"
          /\ pEnd' = "closed"
          /\ p_buf' = <<>>
          /\ total_sent' = 0
          /\ p_frame' = <<>>
          /\ p_out' = <<>>
          /\ IF ppc = "handshake"
               THEN UNCHANGED report
               ELSE \E total_seconds \in ElapsedSeconds :
                      report' = << FinalStatistics(frames_sent, total_bytes,
                                                   total_seconds) >>
          /\ UNCHANGED << wire, frames_sent, total_bytes, sentFrames >>
    /\ UNCHANGED << cpc, g_running, streaming, frame, frame_size, total_received,
                    frames_received, rendered, endReason, prefixRead, sessions, mvars >>
    /\ UNCHANGED << dvars, avars, xvars >>

\* the producer's process is stopped (Ctrl+C): its socket closes
ProducerKilled ==
    /\ ppc \in {"handshake", "size", "data"}
    /\ ppc' = "exit"
    /\ pEnd' = "closed"
    /\ p_buf' = <<>>
    /\ total_sent' = 0
    /\ p_frame' = <<>>
    /\ p_out' = <<>>
    /\ p_cut' = (ppc = "handshake")
    /\ UNCHANGED << p_hs, p_dims, frames_sent, total_bytes, sentFrames, wire, cEnd,
                    p_tuned, attempts, report >>
    /\ UNCHANGED << cpc, g_running, streaming, frame, frame_size, total_received,
                    frames_received, rendered, endReason, prefixRead, sessions, mvars >>
    /\ UNCHANGED << dvars, avars, xvars >>

\* the next run of the sender, once the old connection is gone on both sides
ProducerRestart ==
    /\ ppc = "exit"
    /\ cEnd \in {"none", "closed"}
    /\ sessions < MaxSessions
    /\ ppc' = "idle"
    /\ pEnd' = "none"
    /\ cEnd' = "none"
    /\ wire' = <<>>
    /\ p_hs' = FALSE
    /\ p_dims' = <<SCREEN_WIDTH, SCREEN_HEIGHT>>
    /\ p_buf' = <<>>
    /\ total_sent' = 0
    /\ p_frame' = <<>>
    /\ frames_sent' = 0
    /\ total_bytes' = 0
    /\ sentFrames' = <<>>
    /\ p_out' = <<>>
    /\ p_tuned' = FALSE
    /\ p_cut' = FALSE
    /\ attempts' = 0
    /\ report' = <<>>
    /\ UNCHANGED << cpc, g_running, streaming, frame, frame_size, total_received,
                    frames_received, rendered, endReason, prefixRead, sessions, mvars >>
    /\ UNCHANGED << dvars, avars, xvars >>

\* ------------------------------------------------------------------------
\* Consumer: receiver.cpp main and handleClientConnection
\* ------------------------------------------------------------------------
pvars == << ppc, p_hs, p_dims, p_buf, total_sent, p_frame, frames_sent, total_bytes,
            sentFrames, p_out, p_tuned, p_cut, attempts, report, pEnd >>


\* the length check left out
FrameSizeOk_Unchecked(fs, buf) == TRUE

\* if (frame_size != frame.size()) break;
FrameSizeOk(fs, buf) == fs = Len(buf)

\* a single recv taken for the whole payload
PayloadComplete_OneRecv(got, fs) == got > 0

\* while (total_received < frame_size) ... : the payload loop is over
PayloadComplete(got, fs) == ~(got < fs)

\* recv(client_sock, frame.data() + total_received, n, 0) storing the bytes b
StoreBytes(buf, at, b) ==
    [i \in 1..Len(buf) |->
        IF i > at /\ i <= at + Len(b) THEN b[i - at] ELSE buf[i]]

\* SDL_UpdateTexture(texture, NULL, frame.data(), ...) and present
Render(buf, got, fs) ==
    /\ rendered' = Append(rendered, [buf |-> buf, got |-> got, size |-> fs])
    /\ frames_received' = frames_received + 1

\* an accept loop that does not look at the flag
AcceptLoopContinues_Forever(running) == TRUE

\* while (g_running) { select(... 1 s); if (!g_running) break; ...
AcceptLoopContinues(running) == running

\* main: one turn of while (g_running) { select; accept; handleClientConnection }
\* up to the session loop of handleClientConnection
AcceptLoop ==
    /\ cpc = "select"
    /\ UNCHANGED << pvars, wire, g_running, frame_size, total_received, prefixRead >>
    /\ UNCHANGED << polled, userQuit, server_sock, ssdp_joined, listenq >>
    /\ IF ~AcceptLoopContinues(g_running)
         THEN /\ cpc' = "shutdown"
              /\ UNCHANGED << cEnd, streaming, frame, frames_received, rendered,
                              endReason, sessions, clients_open >>
         ELSE /\ cEnd = "backlog"
              /\ sessions' = sessions + 1
              /\ clients_open' = clients_open + 1
              /\ rendered' = <<>>
              /\ \/ \* SDL_Init or window creation failed: return false
                    /\ cEnd' = "open"
                    /\ cpc' = "close"
                    /\ endReason' = "sdl"
                    /\ UNCHANGED << streaming, frame, frames_received >>
                 \/ /\ cEnd' = "open"
                    /\ frame' = [i \in 1..FrameBytes |-> 0]
                    /\ streaming' = TRUE
                    /\ frames_received' = 0
                    /\ endReason' = "none"
                    /\ cpc' = "session"
    /\ UNCHANGED << dvars, avars, xvars >>

\* what the window hands to one turn of the event loop
Events == {"none", "SDL_QUIT", "SDLK_ESCAPE", "SDLK_q", "SDLK_other"}

\* every key press taken for a quit
IsQuit_AnyKey(event) == event # "none"

\* event.type == SDL_QUIT, or SDL_KEYDOWN with SDLK_ESCAPE or SDLK_q
IsQuit(event) == event \in {"SDL_QUIT", "SDLK_ESCAPE", "SDLK_q"}

\* while (streaming && g_running) { while (SDL_PollEvent(&event)) ... }
SessionLoop ==
    /\ cpc = "session"
    /\ UNCHANGED << pvars, wire, cEnd, frame, frame_size, total_received,
                    frames_received, rendered, prefixRead, sessions >>
    /\ UNCHANGED << server_sock, ssdp_joined, listenq, clients_open >>
    /\ IF ~(streaming /\ g_running)
         THEN /\ cpc' = "close"
              /\ endReason' = "quit"
              /\ UNCHANGED << streaming, g_running, polled, userQuit >>
         ELSE /\ cpc' = "recvSize"
              /\ UNCHANGED endReason
              /\ \E event \in Events :
                    /\ polled' = event
                    /\ IF IsQuit(event)
                         THEN /\ streaming' = FALSE
                              /\ g_running' = FALSE
                              /\ userQuit' = TRUE
                         ELSE UNCHANGED << streaming, g_running, userQuit >>
    /\ UNCHANGED << dvars, avars, xvars >>

\* tv.tv_sec = 5 of setsockopt(client_sock, SOL_SOCKET, SO_RCVTIMEO, ...)
RECV_TIMEOUT_SEC == 5

\* a socket without SO_RCVTIMEO: recv waits for as long as the peer is silent
RecvTimesOut_Blocking(tv_sec) == FALSE

\* SO_RCVTIMEO: recv returns -1 after tv_sec seconds without a byte; a
\* timeout of 0 means none
RecvTimesOut(tv_sec) == tv_sec > 0

\* recv(client_sock, &net_frame_size, 4, 0) and the checks that follow it
RecvFrameSize ==
    /\ cpc = "recvSize"
    /\ cEnd = "open"
    /\ UNCHANGED << pvars, cEnd, g_running, streaming, frame, frames_received,
                    rendered, sessions >>
    /\ polled' = "none"
    /\ UNCHANGED << userQuit, server_sock, ssdp_joined, listenq, clients_open >>
    /\ \/ \* the transport delivers n of the 4 bytes; the rest of
          \* net_frame_size keeps what the stack held
          /\ wire # <<>>
          /\ \E n \in 1..Min(4, Len(wire)) :
             \E rest \in [1..(4 - n) -> UninitBytes] :
                LET net_frame_size == [i \in 1..4 |->
                                         IF i <= n THEN wire[i] ELSE rest[i - n]]
                    fs == ntohl(net_frame_size)
                IN  /\ wire' = SubSeq(wire, n + 1, Len(wire))
                    /\ prefixRead' = n
                    /\ frame_size' = fs
                    /\ total_received' = 0
                    /\ IF FrameSizeOk(fs, frame)
                         THEN /\ cpc' = "recvData"
                              /\ UNCHANGED endReason
                         ELSE /\ cpc' = "close"
                              /\ endReason' = "mismatch"
       \/ \* recv returns 0: the sender has closed
          /\ wire = <<>>
          /\ pEnd = "closed"
          /\ cpc' = "close"
          /\ endReason' = "disconnected"
          /\ UNCHANGED << wire, frame_size, total_received, prefixRead >>
       \/ \* recv returns -1: SO_RCVTIMEO of 5 s expired, or a network error
          /\ wire = <<>>
          /\ pEnd = "open" => RecvTimesOut(RECV_TIMEOUT_SEC)
          /\ cpc' = "close"
          /\ endReason' = "error"
          /\ UNCHANGED << wire, frame_size, total_received, prefixRead >>
    /\ UNCHANGED << dvars, avars, xvars >>

\* one recv of the payload loop; the last one is followed by the render
RecvFrameData ==
    /\ cpc = "recvData"
    /\ cEnd = "open"
    /\ UNCHANGED << pvars, cEnd, g_running, frame_size, prefixRead, sessions, mvars >>
    /\ \/ /\ wire # <<>>
          /\ \E n \in 1..Min(frame_size - total_received, Len(wire)) :
                LET buf == StoreBytes(frame, total_received, SubSeq(wire, 1, n))
                    got == total_received + n
                IN  /\ wire' = SubSeq(wire, n + 1, Len(wire))
                    /\ frame' = buf
                    /\ total_received' = got
                    /\ UNCHANGED streaming
                    /\ IF ~PayloadComplete(got, frame_size)
                         THEN /\ cpc' = "recvData"
                              /\ UNCHANGED << rendered, frames_received, endReason >>
                         ELSE IF ~streaming
                           THEN \* if (!streaming) break;  (a quit event was
                                \* polled at the top of this iteration)
                                /\ cpc' = "close"
                                /\ endReason' = "quit"
                                /\ UNCHANGED << rendered, frames_received >>
                           ELSE /\ Render(buf, got, frame_size)
                                /\ cpc' = "session"
                                /\ UNCHANGED endReason
       \/ \* recv returns 0 or -1 part-way through the frame: the sender has
          \* closed, SO_RCVTIMEO of 5 s expired, or a network error
          /\ wire = <<>>
          /\ pEnd = "open" => RecvTimesOut(RECV_TIMEOUT_SEC)
          /\ streaming' = FALSE
          /\ cpc' = "close"
          /\ endReason' = "dataError"
          /\ UNCHANGED << wire, frame, total_received, rendered, frames_received >>
    /\ UNCHANGED << dvars, avars, xvars >>

\* the receiver leaving after its first session
AfterClose_SingleShot == "shutdown"

\* the session loop entered again on the socket just closed
AfterClose_SameSocket == "session"

\* main after close(client_sock): back to while (g_running) and select
AfterClose == "select"

\* the client socket left open
ClientsAfterClose_Leak(n) == n

\* close(client_sock)
ClientsAfterClose(n) == n - 1

\* handleClientConnection has returned (its locals are gone, and the
\* history of the session with them): close(client_sock)
CloseClient ==
    /\ cpc = "close"
    /\ wire' = <<>>
    /\ cpc' = AfterClose
    /\ streaming' = FALSE
    /\ frame' = <<>>
    /\ frame_size' = 0
    /\ total_received' = 0
    /\ frames_received' = 0
    /\ prefixRead' = 0
    /\ polled' = "none"
    /\ rendered' = <<>>
    /\ endReason' = "none"
    /\ clients_open' = ClientsAfterClose(clients_open)
    /\ IF listenq > 0
         THEN \* the next connection of the listen queue is now at its head
              \* (a connection of ProbeConnect, closed by its peer)
              /\ listenq' = listenq - 1
              /\ cEnd' = "backlog"
              /\ pEnd' = "closed"
         ELSE /\ cEnd' = "closed"
              /\ UNCHANGED << listenq, pEnd >>
    /\ UNCHANGED << ppc, p_hs, p_dims, p_buf, total_sent, p_frame, frames_sent,
                    total_bytes, sentFrames, p_out, p_tuned, p_cut, attempts, report >>
    /\ UNCHANGED << g_running, sessions, userQuit, server_sock, ssdp_joined >>
    /\ UNCHANGED << dvars, avars, xvars >>

\* after the accept loop: close(server_sock); g_running = false
Shutdown ==
    /\ cpc = "shutdown"
    /\ server_sock' = "closed"
    /\ g_running' = FALSE
    /\ cpc' = "join"
    /\ UNCHANGED << pvars, wire, cEnd, streaming, frame, frame_size, total_received,
                    frames_received, rendered, endReason, prefixRead, sessions >>
    /\ UNCHANGED << polled, userQuit, ssdp_joined, listenq, clients_open >>
    /\ UNCHANGED << dvars, avars, xvars >>

\* ssdp_thread.join(); cleanupSockets(); return 0.  The join returns when
\* ssdpAdvertisementThread has returned (at once where the thread is not
\* part of the specification)
JoinSsdp ==
    /\ cpc = "join"
    /\ apc \in {"off", "returned"}
    /\ ssdp_joined' = TRUE
    /\ cpc' = "done"
    /\ UNCHANGED << pvars, wire, cEnd, g_running, streaming, frame, frame_size,
                    total_received, frames_received, rendered, endReason, prefixRead,
                    sessions >>
    /\ UNCHANGED << polled, userQuit, server_sock, listenq, clients_open >>
    /\ UNCHANGED << dvars, avars, xvars >>

Next ==
    \/ ProducerConnect
    \/ ProducerSend
    \/ ProducerKilled
    \/ ProducerRestart
    \/ AcceptLoop
    \/ SessionLoop
    \/ RecvFrameSize
    \/ RecvFrameData
    \/ CloseClient
    \/ Shutdown
    \/ JoinSsdp

Spec == Init /\ [][Next]_vars

ConsumerStep ==
    \/ AcceptLoop
    \/ SessionLoop
    \/ RecvFrameSize
    \/ RecvFrameData
    \/ CloseClient
    \/ Shutdown
    \/ JoinSsdp

\* the receiver's main thread keeps running: select returns within its
\* second and every recv within its 5 seconds
SpecFair == Init /\ [][Next]_vars /\ WF_vars(ConsumerStep)

\* ------------------------------------------------------------------------
\* Discovery client: discover.cpp (the version with testTcpConnection)
\* ------------------------------------------------------------------------

\* for (int i = 0; i < 3; i++) sendto(... msearch ...)
MSEARCH_COUNT == 3

\* while (response_count < 30)
RESPONSE_CAP == 30

\* port = 8081 when LOCATION carries none
DEFAULT_PORT == 8081

\* matching datagrams the network delivers in one pass, unless a single
\* receiver keeps answering
MaxDatagrams == 4

\* candidates that pass the reachability test in one pass
MaxFound == 3

npos == 0

SetMin(S) == CHOOSE x \in S : \A y \in S : x <= y

SetMax(S) == CHOOSE x \in S : \A y \in S : x >= y

\* std::string::find(pat, from), positions counted from 1, npos when absent
Find(str, pat, from) ==
    LET hits == {i \in from..(Len(str) - Len(pat) + 1) :
                    SubSeq(str, i, i + Len(pat) - 1) = pat}
    IN  IF hits = {} THEN npos ELSE SetMin(hits)

\* std::string::find_first_of(chars, from)
FindFirstOf(str, chars, from) ==
    LET hits == {i \in from..Len(str) : str[i] \in chars}
    IN  IF hits = {} THEN npos ELSE SetMin(hits)

Whitespace == {" ", "\t", "\r", "\n"}

\* url.erase(0, url.find_first_not_of(" \t\r\n"));
\* url.erase(url.find_last_not_of(" \t\r\n") + 1);
Trim(str) ==
    LET keep == {i \in 1..Len(str) : str[i] \notin Whitespace}
    IN  IF keep = {} THEN <<>> ELSE SubSeq(str, SetMin(keep), SetMax(keep))

Digits == {"0", "1", "2", "3", "4", "5", "6", "7", "8", "9"}

DigitValue(c) ==
    CASE c = "0" -> 0 [] c = "1" -> 1 [] c = "2" -> 2 [] c = "3" -> 3 [] c = "4" -> 4
      [] c = "5" -> 5 [] c = "6" -> 6 [] c = "7" -> 7 [] c = "8" -> 8 [] c = "9" -> 9

RECURSIVE DecimalValue(_)
DecimalValue(ds) ==
    IF ds = <<>> THEN 0
    ELSE 10 * DecimalValue(SubSeq(ds, 1, Len(ds) - 1)) + DigitValue(ds[Len(ds)])

\* std::stoi: leading white space, an optional sign, then digits; it throws
\* when there is no digit or the value does not fit an int (32 bits)
stoi(str) ==
    LET body   == {i \in 1..Len(str) : str[i] \notin Whitespace}
        start  == IF body = {} THEN Len(str) + 1 ELSE SetMin(body)
        signed == start <= Len(str) /\ str[start] \in {"-", "+"}
        neg    == signed /\ str[start] = "-"
        first  == IF signed THEN start + 1 ELSE start
        stops  == {i \in first..Len(str) : str[i] \notin Digits}
        last   == IF stops = {} THEN Len(str) ELSE SetMin(stops) - 1
        nonzero == {i \in first..last : str[i] # "0"}
        sig    == IF nonzero = {} THEN <<>> ELSE SubSeq(str, SetMin(nonzero), last)
        high   == DecimalValue(SubSeq(sig, 1, Len(sig) - 1))
        low    == IF sig = <<>> THEN 0 ELSE DigitValue(sig[Len(sig)])
        range  == \/ Len(sig) > 10
                  \/ /\ Len(sig) = 10
                     /\ \/ high > 214748364
                        \/ high = 214748364 /\ low > (IF neg THEN 8 ELSE 7)
    IN  IF last < first \/ range
          THEN [thrown |-> TRUE, value |-> 0]
          ELSE [thrown |-> FALSE,
                value |-> IF neg THEN (0 - 10 * high) - low ELSE 10 * high + low]

\* parseSsdpResponse from the text after "LOCATION: " up to the end of its line
ParseLocation(text) ==
    LET url          == Trim(text)
        protocol_pos == Find(url, <<":", "/", "/">>, 1)
        host_start   == protocol_pos + 3
        host_end     == FindFirstOf(url, {":", "/"}, host_start)
        port_end     == Find(url, <<"/">>, host_end)
        port_str     == IF port_end = npos
                          THEN SubSeq(url, host_end + 1, Len(url))
                          ELSE SubSeq(url, host_end + 1, port_end - 1)
        parsed       == stoi(port_str)
    IN  IF protocol_pos = npos
          THEN [ok |-> FALSE, ip |-> <<>>, port |-> DEFAULT_PORT]
        ELSE IF host_end = npos
          THEN [ok |-> TRUE, ip |-> SubSeq(url, host_start, Len(url)), port |-> DEFAULT_PORT]
        ELSE IF url[host_end] = ":"
          THEN [ok |-> TRUE, ip |-> SubSeq(url, host_start, host_end - 1),
                port |-> IF parsed.thrown THEN DEFAULT_PORT ELSE parsed.value]
        ELSE [ok |-> TRUE, ip |-> SubSeq(url, host_start, host_end - 1),
              port |-> DEFAULT_PORT]

\* bool parseSsdpResponse(response, ip, port): false without a LOCATION header
parseSsdpResponse(d) ==
    IF ~d.hasLoc
      THEN [ok |-> FALSE, ip |-> <<>>, port |-> DEFAULT_PORT]
      ELSE ParseLocation(d.url)

\* response.find("urn:screen-share:receiver") != npos ||
\* response.find("screen-share") != npos
MatchesService(d) ==
    \/ d.st = "urn"             \* the text holds "urn:screen-share:receiver"
    \/ d.st \in {"urn", "like"} \* the text holds "screen-share"

\* addr.sin_port = htons(port): the port is cut to 16 bits
htons(port) == port % 65536

\* what socket(), connect(), select() and getsockopt(SO_ERROR) return in one
\* run of testTcpConnection
ConnectOutcomes ==
    { [sock |-> FALSE, result |-> "none",        sel |-> 0, so_error |-> 0],
      [sock |-> TRUE,  result |-> "connected",   sel |-> 0, so_error |-> 0],
      [sock |-> TRUE,  result |-> "refused",     sel |-> 0, so_error |-> 0],
      [sock |-> TRUE,  result |-> "EINPROGRESS", sel |-> 0, so_error |-> 0],
      [sock |-> TRUE,  result |-> "EINPROGRESS", sel |-> 1, so_error |-> 0],
      [sock |-> TRUE,  result |-> "EINPROGRESS", sel |-> 1, so_error |-> 1] }

\* the three-way handshake completed
Establishes(out) ==
    /\ out.sock
    /\ \/ out.result = "connected"
       \/ out.result = "EINPROGRESS" /\ out.sel = 1 /\ out.so_error = 0

\* no socket left, or the peer did not answer within the 500 ms
Trouble(out) == ~out.sock \/ (out.result = "EINPROGRESS" /\ out.sel = 0)

\* bool testTcpConnection(ip, port, timeout_ms)
testTcpConnection(out) ==
    IF ~out.sock THEN FALSE
    ELSE IF out.result = "EINPROGRESS"
      THEN out.sel = 1 /\ out.so_error = 0
      ELSE FALSE

\* std::unique: of every run of equal neighbours the first is kept
RECURSIVE Unique(_)
Unique(list) ==
    IF Len(list) <= 1 THEN list
    ELSE LET front == Unique(SubSeq(list, 1, Len(list) - 1))
             x     == list[Len(list)]
         IN  IF front[Len(front)] = x THEN front ELSE Append(front, x)

DiscoveredDevice(ip, port) == [ip_address |-> ip, tcp_port |-> port]

\* the new device put in front of the list
emplace_front(list, dev) == << dev >> \o list

\* discovered_receivers.emplace_back(ip, port)
emplace_back(list, dev) == Append(list, dev)

\* ---- the datagrams of the model ----
UrlA == <<"h", "t", "t", "p", ":", "/", "/", "A", ":", "8", "0", "8", "1", "/">>

UrlB == <<"h", "t", "t", "p", ":", "/", "/", "B", ":", "8", "0", "8", "1", "/">>

UrlAWide == <<"h", "t", "t", "p", ":", "/", "/", "A", ":", "7", "3", "6", "1", "7", "/">>

Datagram(id, kind, st, hasLoc, url, src) ==
    [id |-> id, kind |-> kind, st |-> st, hasLoc |-> hasLoc, url |-> url, src |-> src]

\* the receivers' answers to M-SEARCH ("HTTP/1.1 200 OK", ST: urn:screen-share:receiver)
ResponseA == Datagram("responseA", "200", "urn", TRUE, UrlA, <<"A">>)

ResponseB == Datagram("responseB", "200", "urn", TRUE, UrlB, <<"B">>)

\* a receiver's announcement ("NOTIFY * HTTP/1.1", NT: urn:screen-share:receiver)
NotifyB == Datagram("notifyB", "NOTIFY", "urn", TRUE, UrlB, <<"B">>)

\* another service whose text contains "screen-share"
OtherServiceB == Datagram("otherB", "200", "like", TRUE, UrlB, <<"B">>)

\* a success response that carries no LOCATION
ResponseNoLocation == Datagram("noLocationD", "200", "urn", FALSE, <<>>, <<"D">>)

\* a success response whose LOCATION port does not fit 16 bits
ResponseWidePort == Datagram("widePortA", "200", "urn", TRUE, UrlAWide, <<"A">>)

\* an M-SEARCH of another client
MSearchSeen == Datagram("msearch", "M-SEARCH", "urn", FALSE, <<>>, <<"E">>)

\* multicast chatter of unrelated services
Chatter == Datagram("chatter", "NOTIFY", "none", TRUE, UrlB, <<"B">>)

AllDatagrams == { ResponseA, ResponseB, NotifyB, OtherServiceB, ResponseNoLocation,
                  ResponseWidePort, MSearchSeen, Chatter }

\* parseSsdpResponse applied to each datagram of the model
Parsed == [d \in AllDatagrams |-> parseSsdpResponse(d)]

\* one receiver alone on the network, answering as often as it likes
OneReceiver == { ResponseA }

AllUp == { << <<"A">>, DEFAULT_PORT >>, << <<"B">>, DEFAULT_PORT >>, << <<"D">>, DEFAULT_PORT >> }

OnlyAUp == { << <<"A">>, DEFAULT_PORT >> }

InitDiscover ==
    /\ dpc = "start"
    /\ msearch_sent = 0
    /\ response_count = 0
    /\ discovered_receivers = <<>>
    /\ sockOpen = FALSE
    /\ pending = FALSE
    /\ senders \in { AllDatagrams, OneReceiver }
    /\ listening \in { AllUp, OnlyAUp }
    /\ accepted = <<>>
    /\ tested = {}
    /\ established = {}
    /\ noLocFrom = {}
    /\ testTrouble = FALSE
    /\ startFailure = "none"
    /\ lastTest = <<>>
    /\ msearch_failed = FALSE

dhist == << accepted, tested, established, noLocFrom, testTrouble, lastTest >>

\* the steps of the set-up that can fail
StartupSteps == {"initSockets", "socket", "join", "bind"}

\* socket() has succeeded before this step runs
OpenedBefore(step) == step \in {"join", "bind"}

\* the close(sock) of the bind branch left out
ClosesOnFailure_JoinOnly(step) == step = "join"

\* the failing branch of this step calls close(sock) before it returns
ClosesOnFailure(step) == step \in {"join", "bind"}

\* initSockets, socket, IP_ADD_MEMBERSHIP, bind, SO_RCVTIMEO
DiscoverStart ==
    /\ dpc = "start"
    /\ \/ /\ sockOpen' = TRUE
          /\ dpc' = "search"
          /\ startFailure' = "none"
       \/ \* one of them failed: return discovered_receivers
          \E step \in StartupSteps :
             /\ sockOpen' = (OpenedBefore(step) /\ ~ClosesOnFailure(step))
             /\ dpc' = "done"
             /\ startFailure' = step
    /\ UNCHANGED << msearch_sent, response_count, discovered_receivers, pending,
                    senders, listening, dhist, msearch_failed >>
    /\ UNCHANGED << svars, avars, xvars >>

\* the loop given up after a sendto that failed
MSearchContinues_StopOnFailure(i, sent) == sent /\ i < MSEARCH_COUNT

\* for (int i = 0; i < 3; i++): the result of sendto is not looked at
MSearchContinues(i, sent) == i < MSEARCH_COUNT

\* one turn of the M-SEARCH loop: sendto, which may fail, and the 100 ms sleep
SendMSearch ==
    /\ dpc = "search"
    /\ msearch_sent < MSEARCH_COUNT
    /\ msearch_sent' = msearch_sent + 1
    /\ \E sent \in BOOLEAN :
          /\ msearch_failed' = (msearch_failed \/ ~sent)
          /\ dpc' = IF MSearchContinues(msearch_sent + 1, sent) THEN "search" ELSE "recv"
    /\ UNCHANGED << response_count, discovered_receivers, sockOpen, pending,
                    senders, listening, dhist >>
    /\ UNCHANGED startFailure
    /\ UNCHANGED << svars, avars, xvars >>

\* the network delivers a datagram to the socket
DatagramArrives ==
    /\ sockOpen
    /\ ~pending
    /\ pending' = TRUE
    /\ UNCHANGED << dpc, msearch_sent, response_count, discovered_receivers,
                    sockOpen, senders, listening, dhist >>
    /\ UNCHANGED << startFailure, msearch_failed >>
    /\ UNCHANGED << svars, avars, xvars >>

\* close(sock); cleanupSockets(); erase(unique(...)); return
Return(list) ==
    /\ dpc' = "done"
    /\ sockOpen' = FALSE
    /\ discovered_receivers' = Unique(list)

\* one turn of the receive loop with a datagram d; out is what the
\* reachability test meets
ReceiveDatagram ==
    /\ dpc = "recv"
    /\ response_count < RESPONSE_CAP
    /\ pending
    /\ pending' = FALSE
    /\ UNCHANGED << msearch_sent, senders, listening >>
    /\ \E d \in senders :
          IF ~MatchesService(d)
            THEN UNCHANGED << dpc, response_count, discovered_receivers, sockOpen, dhist >>
            ELSE
              /\ senders = OneReceiver \/ response_count < MaxDatagrams
              /\ LET r == Parsed[d] IN
                 /\ noLocFrom' = IF d.kind = "200" /\ d.st = "urn" /\ ~d.hasLoc
                                   THEN noLocFrom \cup {d.src} ELSE noLocFrom
                 /\ response_count' = response_count + 1
                 /\ IF ~r.ok
                      THEN /\ UNCHANGED << accepted, tested, established, testTrouble,
                                           lastTest >>
                           /\ IF response_count + 1 < RESPONSE_CAP
                                THEN UNCHANGED << dpc, sockOpen, discovered_receivers >>
                                ELSE Return(discovered_receivers)
                      ELSE \E out \in ConnectOutcomes :
                           LET peer  == << r.ip, htons(r.port) >>
                               found == testTcpConnection(out)
                               list  == IF found
                                          THEN emplace_back(discovered_receivers,
                                                            DiscoveredDevice(r.ip, r.port))
                                          ELSE discovered_receivers
                           IN  /\ Establishes(out) => peer \in listening
                               /\ (out.sock /\ ~Establishes(out) /\ ~Trouble(out))
                                      => peer \notin listening
                               /\ found => Len(accepted) < MaxFound
                               /\ tested' = tested \cup { << r.ip, r.port >> }
                               /\ established' = IF Establishes(out)
                                                   THEN established \cup {peer}
                                                   ELSE established
                               /\ testTrouble' = (testTrouble \/ Trouble(out))
                               /\ lastTest' = << [out |-> out, ret |-> found] >>
                               /\ accepted' = IF found
                                                THEN Append(accepted,
                                                       [dev |-> DiscoveredDevice(r.ip, r.port),
                                                        kind |-> d.kind, st |-> d.st])
                                                ELSE accepted
                               /\ IF response_count + 1 < RESPONSE_CAP
                                    THEN /\ discovered_receivers' = list
                                         /\ UNCHANGED << dpc, sockOpen >>
                                    ELSE Return(list)
    /\ UNCHANGED << startFailure, msearch_failed >>
    /\ UNCHANGED << svars, avars, xvars >>

\* recvfrom returns -1: nothing arrived for timeout_seconds
ReceiveTimeout ==
    /\ dpc = "recv"
    /\ response_count < RESPONSE_CAP
    /\ ~pending
    /\ Return(discovered_receivers)
    /\ UNCHANGED << msearch_sent, response_count, pending, senders, listening, dhist >>
    /\ UNCHANGED << startFailure, msearch_failed >>
    /\ UNCHANGED << svars, avars, xvars >>

DiscoverStep == DiscoverStart \/ SendMSearch \/ ReceiveDatagram \/ ReceiveTimeout

NextDiscover ==
    \/ DiscoverStart
    \/ SendMSearch
    \/ DatagramArrives
    \/ ReceiveDatagram
    \/ ReceiveTimeout

InitPass ==
    InitSession /\ InitDiscover /\ IdleSsdp /\ IdleSendAll /\ IdleLauncher /\ IdleSocket

SpecDiscover == InitPass /\ [][NextDiscover]_vars

\* the discovery thread keeps running: it is never suspended for ever
SpecDiscoverFair == InitPass /\ [][NextDiscover]_vars /\ WF_vars(DiscoverStep)

\* ------------------------------------------------------------------------
\* Discovery server: receiver.cpp ssdpAdvertisementThread
\* ------------------------------------------------------------------------

\* for (int i = 0; i < 30 && g_running; i++) sleep_for(seconds(1))
NOTIFY_SLEEPS == 30

\* datagrams that reach the responder in one run
MaxRequests == 1

\* announcements the announcer sends in one run
MaxNotify == 2

\* datagrams that arrive after the flag was cleared
MaxLate == 1

\* an M-SEARCH for another service
MSearchOther == Datagram("msearchOther", "M-SEARCH", "none", FALSE, <<>>, <<"E">>)

\* an announcement of the service whose text quotes the word M-SEARCH
QuotedSearch == Datagram("quoted", "NOTIFY", "urn", TRUE, UrlB, <<"B">>)

ServerDatagrams == { MSearchSeen, MSearchOther, NotifyB, QuotedSearch }

\* notify_msg of this receiver ("NOTIFY * HTTP/1.1", NT: urn:screen-share:receiver),
\* sent to the group the responder's socket has joined
OwnNotify == Datagram("ownNotify", "NOTIFY", "urn", TRUE, UrlA, <<"R">>)

\* discovery traffic of the programs themselves that reaches port 1900: the
\* receiver's own announcement and another receiver's success response
EchoDatagrams == { OwnNotify, ResponseA }

\* request.find("M-SEARCH") != npos
HasMSearchText(d) == d.kind = "M-SEARCH" \/ d = QuotedSearch

\* request.find("M-SEARCH") != npos && request.find("urn:screen-share:receiver") != npos
ResponderMatches(d) == HasMSearchText(d) /\ d.st = "urn"

\* sendto(response_sock, ..., (struct sockaddr*)&sender, sender_len)
ReplyTo(d) == d.src

\* the responder left running
ThreadExited_Detached(r) == TRUE

\* response_thread.join() returns
ThreadExited(r) == r = "done"

\* a use of response_sock by the responder
UsesResponseSock == usedClosed' = (usedClosed \/ response_sock # "open")

sfixed == << ppc, p_hs, p_dims, p_buf, total_sent, p_frame, frames_sent, total_bytes,
             sentFrames, p_out, p_tuned, p_cut, attempts, report, wire, pEnd, cEnd,
             cpc, streaming, frame, frame_size,
             total_received, frames_received, rendered, endReason, prefixRead,
             sessions, polled, userQuit, server_sock, ssdp_joined, listenq,
             clients_open >>

InitSsdp ==
    /\ apc = "start"
    /\ rpc = "none"
    /\ response_sock = "none"
    /\ notify_sock = "none"
    /\ sleep_i = 0
    /\ notify_count = 0
    /\ inbox = <<>>
    /\ request = <<>>
    /\ heard = <<>>
    /\ handled = <<>>
    /\ sentAfterStop = [responses |-> 0, notifies |-> 0]
    /\ sentResponses = <<>>
    /\ recvAfterStop = 0
    /\ sleepsAfterStop = 0
    /\ usedClosed = FALSE
    /\ ssdpFailure = "none"

\* socket, IP_ADD_MEMBERSHIP, bind to SSDP_PORT, std::thread response_thread
SsdpStart ==
    /\ apc = "start"
    /\ \/ \* socket() failed: return
          /\ apc' = "returned"
          /\ ssdpFailure' = "socket"
          /\ UNCHANGED << response_sock, rpc >>
       \/ \* the join or the bind failed: close(response_sock); return
          /\ response_sock' = "closed"
          /\ apc' = "returned"
          /\ ssdpFailure' \in {"join", "bind"}
          /\ UNCHANGED rpc
       \/ /\ response_sock' = "open"
          /\ rpc' = "loop"
          /\ apc' = "notifySock"
          /\ UNCHANGED ssdpFailure
    /\ UNCHANGED << notify_sock, sleep_i, notify_count, inbox, request, heard, handled, sentAfterStop,
                    sentResponses, recvAfterStop, sleepsAfterStop, usedClosed >>
    /\ UNCHANGED << g_running, sfixed, dvars, xvars >>

\* notify_sock = socket(AF_INET, SOCK_DGRAM, 0); the announcer runs only if
\* this succeeded
NotifySocket ==
    /\ apc = "notifySock"
    /\ \/ /\ notify_sock' = "open"
          /\ apc' = "while"
          /\ UNCHANGED ssdpFailure
       \/ \* socket() failed: the block of the announcer is skipped
          /\ apc' = "stop"
          /\ ssdpFailure' = "notify"
          /\ UNCHANGED notify_sock
    /\ UNCHANGED << rpc, response_sock, sleep_i, notify_count, inbox, request, heard,
                    handled, sentAfterStop, sentResponses, recvAfterStop, sleepsAfterStop, usedClosed >>
    /\ UNCHANGED << g_running, sfixed, dvars, xvars >>

\* an announcer loop that does not look at the flag
AnnounceContinues_Always(running) == TRUE

\* while (g_running)
AnnounceContinues(running) == running

\* the test of the announcer's loop
AnnounceCheck ==
    /\ apc = "while"
    /\ AnnounceContinues(g_running) => notify_count < MaxNotify
    /\ apc' = IF AnnounceContinues(g_running) THEN "notify" ELSE "closeNotify"
    /\ UNCHANGED << rpc, response_sock, notify_sock, sleep_i, notify_count, inbox,
                    request, heard, handled, sentAfterStop, sentResponses, recvAfterStop,
                    sleepsAfterStop, usedClosed >>
    /\ UNCHANGED << ssdpFailure, g_running, sfixed, dvars, xvars >>

\* one increment more before the next announcement
SleepOrAnnounce_OneMore(i) == IF i <= NOTIFY_SLEEPS /\ g_running THEN "sleep" ELSE "while"

\* the sleep loop without its test of the flag
SleepOrAnnounce_NoFlag(i) == IF i < NOTIFY_SLEEPS THEN "sleep" ELSE "while"

\* i < 30 && g_running, read after the statement that precedes it
SleepOrAnnounce(i) == IF i < NOTIFY_SLEEPS /\ g_running THEN "sleep" ELSE "while"

\* sendto(notify_sock, notify_msg ...); notify_count++; for (int i = 0; ...
SendNotify ==
    /\ apc = "notify"
    /\ notify_count' = notify_count + 1
    /\ sleep_i' = 0
    /\ apc' = SleepOrAnnounce(0)
    /\ sentAfterStop' = IF g_running THEN sentAfterStop
                         ELSE [sentAfterStop EXCEPT !.notifies = @ + 1]
    /\ UNCHANGED << rpc, response_sock, notify_sock, inbox, request, heard, handled,
                    sentResponses, recvAfterStop, sleepsAfterStop, usedClosed >>
    /\ UNCHANGED << ssdpFailure, g_running, sfixed, dvars, xvars >>

\* std::this_thread::sleep_for(std::chrono::seconds(1)); i++
Sleep ==
    /\ apc = "sleep"
    /\ sleep_i' = sleep_i + 1
    /\ sleepsAfterStop' = IF g_running THEN sleepsAfterStop ELSE sleepsAfterStop + 1
    /\ apc' = SleepOrAnnounce(sleep_i + 1)
    /\ UNCHANGED << rpc, response_sock, notify_sock, notify_count, inbox, request,
                    heard, handled, sentAfterStop, sentResponses, recvAfterStop, usedClosed >>
    /\ UNCHANGED << ssdpFailure, g_running, sfixed, dvars, xvars >>

\* close(notify_sock)
CloseNotify ==
    /\ apc = "closeNotify"
    /\ notify_sock' = "closed"
    /\ apc' = "stop"
    /\ UNCHANGED << rpc, response_sock, sleep_i, notify_count, inbox, request, heard,
                    handled, sentAfterStop, sentResponses, recvAfterStop, sleepsAfterStop, usedClosed >>
    /\ UNCHANGED << ssdpFailure, g_running, sfixed, dvars, xvars >>

\* g_running = false
StopFlag ==
    /\ apc = "stop"
    /\ g_running' = FALSE
    /\ apc' = "join"
    /\ UNCHANGED << ssdpFailure, sfixed, dvars, xvars >>
    /\ UNCHANGED << rpc, response_sock, notify_sock, sleep_i, notify_count, inbox,
                    request, heard, handled, sentAfterStop, sentResponses, recvAfterStop,
                    sleepsAfterStop, usedClosed >>

\* response_thread.join()
Join ==
    /\ apc = "join"
    /\ ThreadExited(rpc)
    /\ apc' = "closeResp"
    /\ UNCHANGED << rpc, response_sock, notify_sock, sleep_i, notify_count, inbox,
                    request, heard, handled, sentAfterStop, sentResponses, recvAfterStop,
                    sleepsAfterStop, usedClosed >>
    /\ UNCHANGED << ssdpFailure, g_running, sfixed, dvars, xvars >>

\* close(response_sock); return
CloseResponse ==
    /\ apc = "closeResp"
    /\ response_sock' = "closed"
    /\ apc' = "returned"
    /\ sentAfterStop' = [responses |-> 0, notifies |-> 0]
    /\ UNCHANGED << rpc, notify_sock, sleep_i, notify_count, inbox, request, heard,
                    handled, sentResponses, recvAfterStop, sleepsAfterStop, usedClosed >>
    /\ UNCHANGED << ssdpFailure, g_running, sfixed, dvars, xvars >>

\* responder: while (g_running) { setsockopt(response_sock, SO_RCVTIMEO, 1 s)
ResponderLoop ==
    /\ rpc = "loop"
    /\ IF g_running
         THEN /\ rpc' = "recv"
              /\ UsesResponseSock
         ELSE /\ rpc' = "done"
              /\ UNCHANGED usedClosed
    /\ UNCHANGED << apc, response_sock, notify_sock, sleep_i, notify_count, inbox,
                    request, heard, handled, sentAfterStop, sentResponses, recvAfterStop,
                    sleepsAfterStop >>
    /\ UNCHANGED << ssdpFailure, g_running, sfixed, dvars, xvars >>

\* responder: recvfrom returns a datagram, or -1 when the second has passed
ResponderRecv ==
    /\ rpc = "recv"
    /\ rpc' = "check"
    /\ UsesResponseSock
    /\ recvAfterStop' = IF g_running THEN recvAfterStop ELSE recvAfterStop + 1
    /\ IF inbox # <<>>
         THEN /\ request' = << Head(inbox) >>
              /\ inbox' = Tail(inbox)
              /\ heard' = Append(heard, Head(inbox))
         ELSE /\ request' = <<>>
              /\ UNCHANGED << inbox, heard >>
    /\ UNCHANGED << apc, response_sock, notify_sock, sleep_i, notify_count, handled, sentAfterStop,
                    sentResponses, sleepsAfterStop >>
    /\ UNCHANGED << ssdpFailure, g_running, sfixed, dvars, xvars >>

\* responder: if (!g_running) break; if (bytes > 0) { ... find ... }
\* (buffer and request are overwritten or gone after this turn)
ResponderCheck ==
    /\ rpc = "check"
    /\ IF ~g_running
         THEN /\ rpc' = "done"
              /\ request' = <<>>
              /\ UNCHANGED handled
         ELSE IF request = <<>>
           THEN /\ rpc' = "loop"
                /\ UNCHANGED << handled, request >>
           ELSE /\ handled' = Append(handled, request[1])
                /\ IF ResponderMatches(request[1])
                     THEN /\ rpc' = "reply"
                          /\ UNCHANGED request
                     ELSE /\ rpc' = "loop"
                          /\ request' = <<>>
    /\ UNCHANGED << apc, response_sock, notify_sock, sleep_i, notify_count, inbox,
                    heard, sentResponses, recvAfterStop, sleepsAfterStop,
                    usedClosed, sentAfterStop >>
    /\ UNCHANGED << ssdpFailure, g_running, sfixed, dvars, xvars >>

\* responder: sendto(response_sock, response ...)
ResponderReply ==
    /\ rpc = "reply"
    /\ sentResponses' = Append(sentResponses,
                               [to |-> ReplyTo(request[1]), for |-> request[1].id])
    /\ UsesResponseSock
    /\ sentAfterStop' = IF g_running THEN sentAfterStop
                         ELSE [sentAfterStop EXCEPT !.responses = @ + 1]
    /\ rpc' = "loop"
    /\ request' = <<>>
    /\ UNCHANGED << apc, response_sock, notify_sock, sleep_i, notify_count, inbox,
                    heard, handled, recvAfterStop, sleepsAfterStop >>
    /\ UNCHANGED << ssdpFailure, g_running, sfixed, dvars, xvars >>

\* the network delivers a datagram to port 1900
RequestArrives ==
    /\ response_sock = "open"
    /\ inbox = <<>>
    /\ Len(heard) < MaxRequests
    /\ \E d \in ServerDatagrams : inbox' = Append(inbox, d)
    /\ UNCHANGED << apc, rpc, response_sock, notify_sock, sleep_i, notify_count,
                    request, heard, handled, sentAfterStop, sentResponses, recvAfterStop,
                    sleepsAfterStop, usedClosed, ssdpFailure >>
    /\ UNCHANGED << g_running, sfixed, dvars, xvars >>

\* an announcement of this receiver is looped back from the multicast group,
\* or a success response of another receiver reaches port 1900
EchoArrives ==
    /\ response_sock = "open"
    /\ inbox = <<>>
    /\ Len(heard) < MaxRequests
    /\ \E d \in EchoDatagrams :
          /\ d = OwnNotify => notify_count > 0
          /\ inbox' = Append(inbox, d)
    /\ UNCHANGED << apc, rpc, response_sock, notify_sock, sleep_i, notify_count,
                    request, heard, handled, sentAfterStop, sentResponses,
                    recvAfterStop, sleepsAfterStop, usedClosed, ssdpFailure >>
    /\ UNCHANGED << g_running, sfixed, dvars, xvars >>

\* the network delivers a datagram to port 1900 while the server shuts down
RequestArrivesLate ==
    /\ response_sock = "open"
    /\ ~g_running
    /\ inbox = <<>>
    /\ Len(heard) < MaxRequests + MaxLate
    /\ \E d \in ServerDatagrams : inbox' = Append(inbox, d)
    /\ UNCHANGED << apc, rpc, response_sock, notify_sock, sleep_i, notify_count,
                    request, heard, handled, sentAfterStop, sentResponses,
                    recvAfterStop, sleepsAfterStop, usedClosed, ssdpFailure >>
    /\ UNCHANGED << g_running, sfixed, dvars, xvars >>

\* the receiver's main thread clears the flag: a quit event in the session
\* loop, or the end of main
UserQuits ==
    /\ apc # "off"
    /\ g_running
    /\ g_running' = FALSE
    /\ UNCHANGED << sfixed, dvars, avars, xvars >>

AnnouncerStep ==
    \/ SsdpStart
    \/ NotifySocket
    \/ AnnounceCheck
    \/ SendNotify
    \/ Sleep
    \/ CloseNotify
    \/ StopFlag
    \/ Join
    \/ CloseResponse

ResponderStep == ResponderLoop \/ ResponderRecv \/ ResponderCheck \/ ResponderReply

NextSsdp ==
    \/ SsdpStart
    \/ NotifySocket
    \/ AnnounceCheck
    \/ SendNotify
    \/ Sleep
    \/ CloseNotify
    \/ StopFlag
    \/ Join
    \/ CloseResponse
    \/ ResponderLoop
    \/ ResponderRecv
    \/ ResponderCheck
    \/ ResponderReply
    \/ RequestArrives
    \/ UserQuits

InitServer ==
    InitSession /\ IdleDiscover /\ InitSsdp /\ IdleSendAll /\ IdleLauncher /\ IdleSocket

SpecSsdp == InitServer /\ [][NextSsdp]_vars

\* the discovery server with its own traffic coming back to it and with
\* searches that keep arriving during its shutdown
NextSsdpTraffic ==
    \/ SsdpStart
    \/ NotifySocket
    \/ AnnounceCheck
    \/ SendNotify
    \/ Sleep
    \/ CloseNotify
    \/ StopFlag
    \/ Join
    \/ CloseResponse
    \/ ResponderLoop
    \/ ResponderRecv
    \/ ResponderCheck
    \/ ResponderReply
    \/ RequestArrives
    \/ RequestArrivesLate
    \/ EchoArrives
    \/ UserQuits

SpecSsdpTraffic == InitServer /\ [][NextSsdpTraffic]_vars

\* both threads keep being scheduled; recvfrom and sleep_for return by themselves
SpecSsdpFair ==
    InitServer /\ [][NextSsdp]_vars /\ WF_vars(AnnouncerStep) /\ WF_vars(ResponderStep)

\* ------------------------------------------------------------------------
\* The receiver as a whole: main, its accept loop and the discovery thread,
\* with peers that connect to the TCP port and close (the reachability
\* test of discover.cpp)
\* ------------------------------------------------------------------------

\* the steps of main's set-up of the server socket that can fail
ServerSteps == {"socket", "bind", "listen"}

\* the session's variables main's set-up leaves alone
mfixed == << ppc, p_hs, p_dims, p_buf, total_sent, p_frame, frames_sent, total_bytes,
             sentFrames, p_out, p_tuned, p_cut, attempts, report, wire, pEnd, cEnd,
             g_running, streaming, frame, frame_size, total_received,
             frames_received, rendered, endReason, prefixRead, sessions, polled,
             userQuit, ssdp_joined, listenq, clients_open >>

\* main: std::thread ssdp_thread(ssdpAdvertisementThread); socket, bind to
\* TCP_STREAM_PORT, listen.  A failure of one of the three ends main with
\* return 1, the thread neither stopped nor joined
MainStart ==
    /\ cpc = "main"
    /\ apc = "off"
    /\ apc' = "start"
    /\ \/ /\ server_sock' = "open"
          /\ cpc' = "select"
       \/ \E step \in ServerSteps :
             /\ server_sock' = IF step = "socket" THEN "none" ELSE "closed"
             /\ cpc' = "return1"
    /\ UNCHANGED << rpc, response_sock, notify_sock, sleep_i, notify_count, inbox,
                    request, heard, handled, sentAfterStop, sentResponses, recvAfterStop,
                    sleepsAfterStop, usedClosed, ssdpFailure >>
    /\ UNCHANGED << mfixed, dvars, xvars >>

\* the session's variables a peer that sends nothing leaves alone
probefixed == << ppc, p_hs, p_dims, p_buf, total_sent, p_frame, frames_sent,
                 total_bytes, sentFrames, p_out, p_tuned, p_cut, attempts, report,
                 cpc, g_running, streaming, frame, frame_size, total_received,
                 frames_received, rendered, endReason, prefixRead, sessions, polled,
                 userQuit, server_sock, ssdp_joined, clients_open >>

\* connections that have reached the listening socket and are not yet closed
\* by the receiver
Connections ==
    sessions + listenq + (IF cEnd = "backlog" THEN 1 ELSE 0)

\* testTcpConnection of a discovering sender: its connect completes against
\* the listen queue, behind the connection being served if there is one,
\* and it closes the socket at once, without a byte sent
ProbeConnect ==
    /\ server_sock = "open"
    /\ Connections < MaxSessions
    /\ IF cEnd \in {"none", "closed"}
         THEN /\ cEnd' = "backlog"
              /\ pEnd' = "closed"
              /\ wire' = <<>>
              /\ UNCHANGED listenq
         ELSE /\ listenq' = listenq + 1
              /\ UNCHANGED << cEnd, pEnd, wire >>
    /\ UNCHANGED << probefixed, dvars, avars, xvars >>

MainStep ==
    \/ MainStart
    \/ AcceptLoop
    \/ SessionLoop
    \/ RecvFrameSize
    \/ CloseClient
    \/ Shutdown
    \/ JoinSsdp

NextReceiver ==
    \/ MainStart
    \/ AcceptLoop
    \/ SessionLoop
    \/ RecvFrameSize
    \/ CloseClient
    \/ Shutdown
    \/ JoinSsdp
    \/ ProbeConnect
    \/ SsdpStart
    \/ NotifySocket
    \/ AnnounceCheck
    \/ SendNotify
    \/ Sleep
    \/ CloseNotify
    \/ StopFlag
    \/ Join
    \/ CloseResponse
    \/ ResponderLoop
    \/ ResponderRecv
    \/ ResponderCheck

InitReceiver ==
    InitMain /\ IdleDiscover /\ IdleSsdp /\ IdleSendAll /\ IdleLauncher /\ IdleSocket

SpecReceiver == InitReceiver /\ [][NextReceiver]_vars

\* the three threads keep being scheduled; select, recv, recvfrom and
\* sleep_for return by themselves
SpecReceiverFair ==
    /\ InitReceiver
    /\ [][NextReceiver]_vars
    /\ WF_vars(MainStep)
    /\ WF_vars(AnnouncerStep)
    /\ WF_vars(ResponderStep)

\* ------------------------------------------------------------------------
\* One call of NetworkSocket::sendAll(data, size), sender.cpp
\* ------------------------------------------------------------------------

\* longest buffer handed to sendAll
MaxData == 3

\* the buffers handed to sendAll
SendAllData == UNION { [1..n -> {7, 9}] : n \in 0..MaxData }

\* const char *buffer = data; size_t total_sent = 0; the socket is connected
\* and has taken no byte yet
InitSendAll ==
    /\ InitSession
    /\ IdleDiscover
    /\ IdleSsdp
    /\ IdleLauncher
    /\ IdleSocket
    /\ sa_pc = "loop"
    /\ sa_running = TRUE
    /\ sa_ret = FALSE
    /\ sa_failed = FALSE

sakeep == << ppc, p_hs, p_dims, p_frame, frames_sent, total_bytes, sentFrames, p_out,
             p_tuned, p_cut, attempts, report, pEnd,
             cEnd, cpc, g_running, streaming, frame, frame_size, total_received,
             frames_received, rendered, endReason, prefixRead, sessions, mvars, lvars, nvars >>

\* the caller's buffer: the model fixes it at the first turn of the loop
SendAllCall ==
    /\ sa_pc = "loop"
    /\ p_buf = <<>>
    /\ total_sent = 0
    /\ wire = <<>>
    /\ ~sa_failed
    /\ \E data \in SendAllData \ {<<>>} : p_buf' = data
    /\ UNCHANGED << total_sent, wire, sakeep, dvars, avars, savars >>

\* one turn of the loop, or the return when its condition is false
SendAllTurn ==
    /\ sa_pc = "loop"
    /\ IF SendAllContinues(Len(p_buf), total_sent, sa_running)
         THEN \E sent \in -1..(Len(p_buf) - total_sent) :
                IF sent <= 0
                  THEN /\ sa_failed' = TRUE
                       /\ sa_ret' = FALSE
                       /\ sa_pc' = "returned"
                       /\ UNCHANGED << total_sent, wire >>
                  ELSE /\ wire' = wire \o SubSeq(p_buf, total_sent + 1, total_sent + sent)
                       /\ total_sent' = total_sent + sent
                       /\ UNCHANGED << sa_failed, sa_ret, sa_pc >>
         ELSE /\ sa_ret' = SendAllResult(Len(p_buf), total_sent)
              /\ sa_pc' = "returned"
              /\ UNCHANGED << sa_failed, total_sent, wire >>
    /\ UNCHANGED << p_buf, sa_running, sakeep, dvars, avars >>

\* another thread or a handler clears g_running during the call
SendAllStopped ==
    /\ sa_pc = "loop"
    /\ sa_running
    /\ sa_running' = FALSE
    /\ UNCHANGED << p_buf, total_sent, wire, sa_pc, sa_ret, sa_failed, sakeep,
                    dvars, avars >>

NextSendAll == SendAllCall \/ SendAllTurn \/ SendAllStopped

SpecSendAll == InitSendAll /\ [][NextSendAll]_vars

\* ------------------------------------------------------------------------
\* The launcher: app.cpp main and showMenu
\* ------------------------------------------------------------------------

\* lines std::getline reads in one run of the launcher
MaxLines == 3

\* what the user types at "Enter your choice (1-3): "
InputLines ==
    { <<"1">>, <<"2">>, <<"3">>, <<"0">>, <<"4">>, <<"-", "1">>, <<"a">>, << >>,
      <<" ", "3">>, <<"3", "x">> }

LastLine == lines[Len(lines)]

\* while (choice < 0 || choice > 2)
MenuLoopContinues(c) == c < 0 \/ c > 2

\* if (choice < 1 || choice > 3): "Invalid choice"
InvalidChoice(c) == c < 1 \/ c > 3

lfixed == << svars, dvars, avars, savars, nvars >>

\* showSplashScreen, then checkExecutables: return 1 when one is missing
LauncherStart ==
    /\ lpc = "start"
    /\ \E found \in BOOLEAN :
          IF found
            THEN lpc' = "menu" /\ UNCHANGED main_ret
            ELSE lpc' = "returned" /\ main_ret' = << 1 >>
    /\ UNCHANGED << choice, lines, menu_ret, started, invalid_shown, lfixed >>

\* int choice = showMenu(): int choice = -1
ShowMenu ==
    /\ lpc = "menu"
    /\ choice' = -1
    /\ menu_ret' = << >>
    /\ lpc' = "while"
    /\ UNCHANGED << lines, started, invalid_shown, main_ret, lfixed >>

\* the test of showMenu's loop: the menu and the prompt, or return choice
MenuLoop ==
    /\ lpc = "while"
    /\ IF MenuLoopContinues(choice)
         THEN lpc' = "getline" /\ UNCHANGED menu_ret
         ELSE lpc' = "switch" /\ menu_ret' = << choice >>
    /\ UNCHANGED << choice, lines, started, invalid_shown, main_ret, lfixed >>

\* std::getline, std::stoi (choice = -1 when it throws), the range check
ReadChoice ==
    /\ lpc = "getline"
    /\ Len(lines) < MaxLines
    /\ \E input \in InputLines :
          LET parsed == stoi(input)
              c      == IF parsed.thrown THEN -1 ELSE parsed.value
          IN  /\ lines' = Append(lines, input)
              /\ choice' = c
              /\ invalid_shown' = InvalidChoice(c)
    /\ lpc' = "while"
    /\ UNCHANGED << menu_ret, started, main_ret, lfixed >>

\* switch (choice): runSender, runReceiver, return 0, or no case at all
Dispatch ==
    /\ lpc = "switch"
    /\ CASE choice = 1 ->
               /\ started' = Append(started, [what |-> "sender", at |-> Len(lines)])
               /\ lpc' = "run"
               /\ UNCHANGED main_ret
          [] choice = 2 ->
               /\ started' = Append(started, [what |-> "receiver", at |-> Len(lines)])
               /\ lpc' = "run"
               /\ UNCHANGED main_ret
          [] choice = 3 ->
               /\ main_ret' = << 0 >>
               /\ lpc' = "returned"
               /\ UNCHANGED started
          [] OTHER ->
               /\ lpc' = "menu"
               /\ UNCHANGED << started, main_ret >>
    /\ UNCHANGED << choice, lines, menu_ret, invalid_shown, lfixed >>

\* the child has ended and Enter was pressed: back to while (true)
RunReturns ==
    /\ lpc = "run"
    /\ lpc' = "menu"
    /\ UNCHANGED << choice, lines, menu_ret, started, invalid_shown, main_ret, lfixed >>

NextLauncher ==
    \/ LauncherStart
    \/ ShowMenu
    \/ MenuLoop
    \/ ReadChoice
    \/ Dispatch
    \/ RunReturns

InitLauncher ==
    /\ InitSession
    /\ IdleDiscover
    /\ IdleSsdp
    /\ IdleSendAll
    /\ IdleSocket
    /\ lpc = "start"
    /\ choice = -1
    /\ lines = <<>>
    /\ menu_ret = <<>>
    /\ started = <<>>
    /\ invalid_shown = FALSE
    /\ main_ret = <<>>

SpecLauncher == InitLauncher /\ [][NextLauncher]_vars

\* ------------------------------------------------------------------------
\* NetworkSocket (sender.cpp): create, connect, close, isValid
\* ------------------------------------------------------------------------

\* calls of connect on one object
MaxCalls == 2

\* the descriptor socket() hands out
NewDescriptor == 3

\* the ip strings connect is called with: an address, a host name, an
\* address with a number above 255, nothing
ConnectIps ==
    { <<"1", "0", ".", "0", ".", "0", ".", "7">>,
      <<"p", "c", ".", "l", "a", "n">>,
      <<"1", "0", ".", "0", ".", "0", ".", "3", "0", "0">>,
      << >> }

\* inet_pton(AF_INET, ip, ...): 1 for four decimal numbers 0..255 separated
\* by dots, 0 otherwise
inet_pton(ip) ==
    LET dots   == {i \in 1..Len(ip) : ip[i] = "."}
        edges  == {0, Len(ip) + 1} \cup dots
        After(i) == SetMin({j \in edges : j > i})
        parts  == { SubSeq(ip, i + 1, After(i) - 1) : i \in edges \ {Len(ip) + 1} }
    IN  IF /\ Cardinality(dots) = 3
           /\ \A i \in 1..Len(ip) : ip[i] \in Digits \cup {"."}
           /\ \A part \in parts : Len(part) \in 1..3 /\ DecimalValue(part) <= 255
          THEN 1 ELSE 0

\* bool isValid() const: sock >= 0
isValid(sock) == sock >= 0

\* void close(): if (isValid()) { ::close(sock); sock = -1; }
close(sock) == IF isValid(sock) THEN -1 ELSE sock

\* bool create(): close(); sock = socket(AF_INET, SOCK_STREAM, 0)
create(sock, out) == IF out.sock THEN NewDescriptor ELSE -1

\* bool connect(ip, port, timeout_ms): the value returned and the member
\* sock it leaves.  connected is set only where the connection was in
\* progress, select returned 1 and SO_ERROR is 0
connect(sock, ip, out) ==
    LET created   == create(close(sock), out)
        connected == out.result = "EINPROGRESS" /\ out.sel = 1 /\ out.so_error = 0
    IN  IF ~isValid(created)
          THEN [ret |-> FALSE, sock |-> created]
        ELSE IF inet_pton(ip) <= 0
          THEN [ret |-> FALSE, sock |-> created]
        ELSE IF ~connected
          THEN [ret |-> FALSE, sock |-> close(created)]
          ELSE [ret |-> TRUE, sock |-> created]

nfixed == << svars, dvars, avars, savars, lvars >>

\* connection.connect(ip, port)
SocketConnect ==
    /\ Len(ns_calls) < MaxCalls
    /\ \E ip \in ConnectIps, out \in ConnectOutcomes :
          LET r == connect(ns_sock, ip, out)
          IN  /\ ns_sock' = r.sock
              /\ ns_ret' = << r.ret >>
              /\ ns_calls' = Append(ns_calls, [ip |-> ip, out |-> out, ret |-> r.ret])
    /\ UNCHANGED nfixed

\* connection.close(), or ~NetworkSocket()
SocketClose ==
    /\ ns_ret # <<>>
    /\ ns_sock' = close(ns_sock)
    /\ ns_ret' = <<>>
    /\ UNCHANGED << ns_calls, nfixed >>

NextSocket == SocketConnect \/ SocketClose

InitSocket == InitSession /\ IdleDiscover /\ IdleSsdp /\ IdleSendAll /\ IdleLauncher /\ IdleSocket

SpecSocket == InitSocket /\ [][NextSocket]_vars

\* ------------------------------------------------------------------------
\* Properties of the streaming session
\* ------------------------------------------------------------------------

\* the consumer is serving the connection of the current producer
InSession == cEnd = "open"

\* the k-th rendered picture is the k-th payload sent on the connection
RenderedAreSent ==
    \A i \in 1..Len(rendered) :
        /\ i <= Len(sentFrames)
        /\ rendered[i].buf = sentFrames[i]

\* C1: framing round trip.  A producer that sends, without a handshake,
\* frames of the consumer's expected size as a 4-byte big-endian length
\* prefix followed by the payload has every payload reconstructed exactly by
\* the consumer, however the transport splits the stream: no frame is
\* rejected and every rendered buffer is the payload that was sent.
FramingRoundTrip ==
    (InSession /\ ~p_hs /\ p_dims = <<SCREEN_WIDTH, SCREEN_HEIGHT>>)
        => (endReason # "mismatch" /\ RenderedAreSent)

\* C2: a producer that sends the 12-byte handshake and then frames of
\* width*height*3 bytes has its handshake consumed before any length prefix
\* is read, so none of its frames is rejected as a length mismatch and the
\* frames rendered are the frames sent.
HandshakeThenFrames ==
    (InSession /\ p_hs) => (endReason # "mismatch" /\ RenderedAreSent)

\* C3: length-mismatch rejection.  When the recv of the length prefix yields
\* a length other than the size of the frame buffer, the session ends in
\* that step: at most the 4 prefix bytes were taken from the stream, nothing
\* is rendered, the frame buffer is untouched, and the only thing that
\* follows is the close of the client socket.
LengthMismatchRejection ==
    [][ /\ (cpc = "recvSize" /\ Len(wire') < Len(wire) /\ frame_size' # Len(frame))
            => /\ cpc' = "close"
               /\ Len(wire) - Len(wire') <= 4
               /\ frame' = frame
               /\ rendered' = rendered
               /\ frames_received' = frames_received
        /\ (cpc = "close" /\ cpc' # "close")
            => /\ cpc' = "select"
               /\ cEnd' = "closed"
               /\ Len(rendered') <= Len(rendered)
      ]_vars

\* a complete prefix announcing another size has ended a session
MismatchSeen ==
    /\ cpc = "close"
    /\ endReason = "mismatch"
    /\ prefixRead = 4
    /\ frame_size # FrameBytes
    /\ Len(frame) = FrameBytes

\* C4: the render sink is called only with a buffer for which exactly
\* frame_size payload bytes were received; a recv that returns 0 or an error
\* part-way through a frame ends the session without a render and without
\* counting the frame.
RenderOnlyCompleteFrames ==
    /\ [](\A i \in 1..Len(rendered) :
             /\ rendered[i].got = rendered[i].size
             /\ rendered[i].size = FrameBytes
             /\ Len(rendered[i].buf) = FrameBytes)
    /\ [](cpc \in {"session", "recvSize", "recvData", "close"} /\ endReason # "sdl"
             => frames_received = Len(rendered))
    /\ [][ /\ (rendered' # rendered /\ rendered' # <<>>)
               => /\ cpc = "recvData"
                  /\ total_received' = frame_size
                  /\ (Len(wire) - Len(wire')) + total_received = frame_size
           /\ (cpc = "recvData" /\ cpc' = "close")
               => /\ rendered' = rendered
                  /\ frames_received' = frames_received
         ]_vars

\* a frame was rendered, and the next one broke off part-way
PartialFrameDropped ==
    /\ cpc = "close"
    /\ endReason = "dataError"
    /\ total_received > 0
    /\ total_received < frame_size
    /\ Len(rendered) = 1

\* the ways a session ends that are not the user's quit
NetworkEnds == {"disconnected", "error", "mismatch", "dataError"}

FramesInOrder ==
    InSession =>
        /\ Len(rendered) <= Len(sentFrames)
        /\ \A k \in 1..Len(rendered) : rendered[k].buf = sentFrames[k]

\* C17: sendAll(data, size).  The bytes the socket has accepted are always
\* the first total_sent bytes of data, each once and in order; the call
\* returns true exactly when all size bytes were accepted, and false exactly
\* when a send returned zero or less or g_running was cleared with bytes
\* still to send.
SendAllContract ==
    sa_pc # "off" =>
        /\ total_sent <= Len(p_buf)
        /\ wire = SubSeq(p_buf, 1, total_sent)
        /\ sa_pc = "returned" =>
              /\ sa_ret <=> wire = p_buf
              /\ ~sa_ret <=> (sa_failed \/ (~sa_running /\ total_sent < Len(p_buf)))

\* sendAll gave up after a partial write because the flag was cleared
SendAllCancelled ==
    /\ sa_pc = "returned"
    /\ ~sa_ret
    /\ ~sa_failed
    /\ total_sent > 0
    /\ total_sent < Len(p_buf)

\* the frames of the current connection: those sent and the one in hand
FramesInHand ==
    IF ppc \in {"size", "data"} THEN Append(sentFrames, p_frame) ELSE sentFrames

\* byte i of what is left of the stream after the handshake belongs to a
\* frame in hand and is the byte of its prefix or payload at that offset
FrameByteInPlace(body, i) ==
    LET size  == p_dims[1] * p_dims[2] * BYTES_PER_PIXEL
        k     == ((i - 1) \div (4 + size)) + 1
        at    == ((i - 1) % (4 + size)) + 1
        start == (k - 1) * (4 + size)
    IN  /\ k <= Len(FramesInHand)
        /\ Len(FramesInHand[k]) = size
        /\ at > 4 => body[i] = FramesInHand[k][at - 4]
        /\ at = 4 => ntohl(SubSeq(body, start + 1, start + 4)) = size

\* byte i (1..12) of a handshake {width, height, fps} in network byte order
HandshakeByte(i) ==
    LET word  == << p_dims[1], p_dims[2], TARGET_FPS >>[((i - 1) \div 4) + 1]
        shift == << 16777216, 65536, 256, 1 >>[((i - 1) % 4) + 1]
    IN  (word \div shift) % 256

MalformedHandshakeClosed ==
    (InSession /\ p_hs /\ (p_dims \in DegenerateDims \/ p_cut)) => rendered = <<>>

OneAttempt == attempts <= 1 /\ (ppc # "idle" => attempts = 1)

\* C23: a run of the producer calls connect once, whatever fails afterwards,
\* and when a send of the frame loop has failed the final statistics carry
\* the number of frames sent and the number of bytes transferred.
OneAttemptAndReport ==
    /\ OneAttempt
    /\ \A i \in 1..Len(report) :
          /\ report[i].frames = << frames_sent >>
          /\ report[i].bytes = << total_bytes >>

\* C30: Closed is terminal.  Once the session loop has ended the consumer
\* takes nothing more from that connection: its next step closes the socket
\* and returns to the accept loop, bytes are taken only inside the session
\* loop of an open client socket, and a socket becomes open only by accept,
\* as a new one.  Once a sendAll of the producer has returned false (the
\* producer is at its exit) nothing more is written to the connection.
ClosedIsTerminal ==
    [][ /\ (cpc = "close" /\ cpc' # "close")
              => /\ cpc' = "select"
                 /\ cEnd' \in {"closed", "backlog"}
                 /\ Len(wire') <= Len(wire)
        /\ (Len(wire') < Len(wire) /\ cpc # "close")
              => /\ cEnd = "open"
                 /\ cpc \in {"recvSize", "recvData"}
        /\ (cEnd # "open" /\ cEnd' = "open")
              => /\ cEnd = "backlog"
                 /\ cpc = "select"
                 /\ sessions' = sessions + 1
        /\ cEnd = "closed" => cEnd' \in {"closed", "none"}
        /\ ppc = "exit" => (Len(wire') <= Len(wire) /\ pEnd' # "open")
      ]_vars

\* the producer's send has failed on a connection whose session had ended
\* after a frame was rendered
SendFailedAfterSessionEnd ==
    /\ ppc = "exit"
    /\ report # <<>>
    /\ frames_sent > 0
    /\ cEnd = "closed"
    /\ cpc = "select"

\* sum of (4 + payload length) over a list of frames
RECURSIVE SumFrameBytes(_)
SumFrameBytes(frames) ==
    IF frames = <<>> THEN 0
    ELSE 4 + Len(frames[Len(frames)]) + SumFrameBytes(SubSeq(frames, 1, Len(frames) - 1))

\* bytes the socket has accepted that belong to the handshake or to the
\* frame whose prefix or payload is being sent
BytesNotCounted ==
    (IF ~p_hs THEN 0 ELSE IF ppc = "handshake" THEN total_sent ELSE 12)
    + (CASE ppc = "size" -> total_sent
         [] ppc = "data" -> 4 + total_sent
         [] OTHER -> 0)

\* C31: the producer's counters count completely sent frames only.  While
\* the producer is connected frames_sent is the number of frames whose prefix
\* and payload were both accepted by the socket and total_bytes is the sum of
\* 4 + payload length over those frames, which is every byte written except
\* the handshake and the frame under way; within a run frames_sent never
\* decreases and grows by one in the step that completes a payload; a send
\* that fails leaves both counters as they were.
CountersCountSentFrames ==
    /\ [](/\ frames_sent = Len(sentFrames)
          /\ total_bytes = SumFrameBytes(sentFrames))
    /\ [](ppc \in {"handshake", "size", "data"}
            => total_bytes = Len(p_out) - BytesNotCounted)
    /\ [][ /\ (frames_sent' >= frames_sent /\ total_bytes' >= total_bytes)
              \/ ppc' = "idle"
           /\ frames_sent' > frames_sent
                => /\ frames_sent' = frames_sent + 1
                   /\ ppc = "data"
                   /\ Len(wire') - Len(wire) = Len(p_frame) - total_sent
                   /\ total_bytes' = total_bytes + 4 + Len(p_frame)
           /\ (report' # report /\ ppc' = "exit")
                => /\ frames_sent' = frames_sent
                   /\ total_bytes' = total_bytes
      ]_vars

\* one frame was counted and the send of the next one has failed
CountedThenFailed ==
    /\ ppc = "exit"
    /\ report # <<>>
    /\ frames_sent = 1
    /\ Len(sentFrames[1]) > 0
    /\ total_bytes = 4 + Len(sentFrames[1])

\* ------------------------------------------------------------------------
\* Properties of the launcher
\* ------------------------------------------------------------------------

\* C32: menu option 3 ends the program.  Once the line "3" has been read at
\* the menu, showMenu is on its way to return 3 and main to return 0: no
\* further line is asked for, and no sender or receiver is started after it.
ExitEndsProgram ==
    (lines # <<>> /\ LastLine = <<"3">>)
        => /\ lpc \in {"while", "switch", "returned"}
           /\ lpc = "while" => choice = 3
           /\ lpc = "switch" => menu_ret = << 3 >>
           /\ lpc = "returned" => main_ret = << 0 >>
           /\ \A i \in 1..Len(started) : started[i].at < Len(lines)

\* C38: showMenu returns only after a valid choice.  What it returns is 1,
\* 2 or 3, and with a choice outside 1..3 in hand (0, 4, a negative number,
\* text that is no number) its loop goes on to a new prompt.
ReturnsValidChoiceOnly ==
    /\ [](menu_ret # <<>> => menu_ret[1] \in 1..3)
    /\ [][ (lpc = "while" /\ lines # <<>> /\ InvalidChoice(choice))
              => lpc' = "getline" ]_vars

\* a recv of the session loop is pending
RecvPending == cpc \in {"recvSize", "recvData"}

\* C37: a session does not block on a silent peer.  A recv that finds no
\* byte while the producer keeps its socket open fails (SO_RCVTIMEO, 5 s):
\* that step ends the session loop, renders nothing, counts no frame and
\* leaves g_running alone; the close that follows returns to the accept
\* loop; and there is no state in which a pending recv cannot return.
SessionNeverBlocks ==
    /\ [][ (RecvPending /\ wire = <<>> /\ pEnd = "open" /\ cpc' # cpc)
              => /\ cpc' = "close"
                 /\ endReason' = (IF cpc = "recvSize" THEN "error" ELSE "dataError")
                 /\ rendered' = rendered
                 /\ frames_received' = frames_received
                 /\ g_running' = g_running
         ]_vars
    /\ [][ (cpc = "close" /\ endReason \in {"error", "dataError"} /\ cpc' # "close")
              => /\ cpc' = "select"
                 /\ Len(rendered') <= Len(rendered)
                 /\ frames_received' <= frames_received
                 /\ g_running' = g_running
         ]_vars
    /\ [](RecvPending => ENABLED (RecvFrameSize \/ RecvFrameData))

\* a session has ended on a frame left incomplete by a producer that is
\* still connected
TimedOutMidFrame ==
    /\ cpc = "close"
    /\ endReason = "dataError"
    /\ pEnd = "open"
    /\ ppc = "data"
    /\ total_received > 0
    /\ total_received < frame_size
    /\ g_running

\* C35: whenever NetworkSocket::connect has returned false (no socket, an
\* invalid ip string, refused, timed out) the object holds no open socket:
\* isValid() is false.
FailedConnectHoldsNoSocket ==
    ns_ret = << FALSE >> => ~isValid(ns_sock)

\* ------------------------------------------------------------------------
\* Properties of the receiver as a whole
\* ------------------------------------------------------------------------

\* C21: a resource failure of the discovery server (responder socket, join,
\* bind, notify socket) stops the discovery server only: unless the user
\* quits, g_running stays set and main stays in its accept loop.
SsdpFailureNotFatal ==
    (ssdpFailure # "none" /\ ~userQuit)
        => (g_running /\ cpc \notin {"shutdown", "join", "done"})

\* C25: shutdown is live.  After a quit event no connection is accepted,
\* the accept loop leaves at its next test of the flag, and in the end the
\* server socket is closed, the discovery thread has returned and is
\* joined, and main has returned.
ShutdownIsLive ==
    /\ [](userQuit => <>(/\ cpc = "done"
                         /\ server_sock = "closed"
                         /\ apc = "returned"
                         /\ ssdp_joined))
    /\ [][ userQuit => sessions' = sessions ]_vars
    /\ [][ (userQuit /\ cpc = "select" /\ cpc' # "select") => cpc' = "shutdown" ]_vars
    /\ [][ (userQuit /\ cpc \in {"shutdown", "join"}) => cpc' \in {"shutdown", "join", "done"} ]_vars

\* main has returned after a quit, with a second connection left waiting
QuitWithConnectionWaiting ==
    /\ cpc = "done"
    /\ userQuit
    /\ ssdp_joined
    /\ cEnd = "backlog"

\* C28: one session at a time.  At most one accepted client socket is open,
\* accept is called only when none is, and a connection that arrived during
\* a session comes to the head of the listen queue only with the close of
\* the socket of that session.
OneSessionAtATime ==
    /\ [](clients_open <= 1)
    /\ [](clients_open = (IF cEnd = "open" THEN 1 ELSE 0))
    /\ [][ sessions' = sessions + 1 => (clients_open = 0 /\ cEnd = "backlog") ]_vars
    /\ [][ listenq' < listenq => (cpc = "close" /\ clients_open' = 0) ]_vars
    /\ [][ Len(wire') < Len(wire) => cEnd = "open" ]_vars

\* a second connection was made during a session and is served after it
SecondServedAfterFirst ==
    /\ sessions = 2
    /\ cEnd = "open"
    /\ cpc = "recvSize"
    /\ listenq = 0
    /\ apc # "off"

\* C29: wherever main ends after the discovery thread was started, the flag
\* is cleared and the thread joined.
ExitJoinsDiscovery ==
    (apc # "off" /\ cpc \in {"done", "return1"}) => (~g_running /\ ssdp_joined)

\* ------------------------------------------------------------------------
\* Properties of a discovery pass
\* ------------------------------------------------------------------------

\* the pairs (ip_address, tcp_port) that were accepted in this pass
AcceptedPairs == { accepted[i].dev : i \in 1..Len(accepted) }

\* C5: dedup invariant.  The list discoverReceivers returns holds no two
\* entries with the same (ip_address, tcp_port), and it is as long as the
\* number of distinct pairs accepted, in whatever order the responses came.
DedupInvariant ==
    dpc = "done" =>
        /\ \A i, j \in 1..Len(discovered_receivers) :
              discovered_receivers[i] = discovered_receivers[j] => i = j
        /\ Len(discovered_receivers) = Cardinality(AcceptedPairs)

\* C6: a candidate is added only for a success response (HTTP 200) that
\* carries the service type urn:screen-share:receiver; announcements,
\* requests and other services' messages never contribute an entry.
OnlyServiceResponses ==
    \A i \in 1..Len(accepted) : accepted[i].kind = "200" /\ accepted[i].st = "urn"

\* C7: unreachable filtering.  Every returned device had a TCP connection
\* made, during this pass, to the address and port it advertises, and that
\* address and port is one something listens on.
ReachableOnly ==
    \A i \in 1..Len(discovered_receivers) :
        LET dev == discovered_receivers[i]
        IN  /\ << dev.ip_address, dev.tcp_port >> \in established
            /\ << dev.ip_address, dev.tcp_port >> \in listening

\* C8: happy path.  One receiver alone answers, with LOCATION http://A:8081/,
\* A:8081 accepts connections, and every reachability test found a socket
\* and an answer in time: the pass returns exactly [{A, 8081}], however many
\* answers came.
HappyPath ==
    ( /\ dpc = "done"
      /\ senders = OneReceiver
      /\ << <<"A">>, DEFAULT_PORT >> \in listening
      /\ response_count >= 1
      /\ ~testTrouble )
        => discovered_receivers = << DiscoveredDevice(<<"A">>, DEFAULT_PORT) >>

\* C9: a success response of the service that carries no LOCATION is not
\* dropped: its UDP source address with port 8081 becomes a candidate.
FallbackToSource ==
    \A src \in noLocFrom : << src, DEFAULT_PORT >> \in tested

\* C10: discoverReceivers terminates for every stream of datagrams.
DiscoverTerminates == <>(dpc = "done")

\* C11: when initSockets, socket creation, the multicast join or the bind
\* fails, discoverReceivers has returned, its list is empty, the socket it
\* may have opened is closed and no search request was sent.
StartupFailureReturnsEmpty ==
    startFailure # "none" =>
        /\ dpc = "done"
        /\ discovered_receivers = <<>>
        /\ ~sockOpen
        /\ msearch_sent = 0
        /\ response_count = 0

\* C18: the reachability test (and NetworkSocket::connect, which handles
\* the outcomes of the non-blocking connect the same way) returns true
\* exactly when the TCP connection was established: at once, or in progress
\* and completed without error before the deadline.
ConnectIffEstablished ==
    \A i \in 1..Len(lastTest) : lastTest[i].ret <=> Establishes(lastTest[i].out)

\* the devices accepted in this pass, in the order of their responses
AcceptedDevices == [i \in 1..Len(accepted) |-> accepted[i].dev]

\* where x stands first in list
FirstIndex(list, x) == SetMin({ i \in 1..Len(list) : list[i] = x })

\* C24: first-discovered-first.  While the pass runs the list is the
\* accepted devices in the order their responses arrived, and of any two
\* devices in the returned list the one accepted first stands first.
FirstDiscoveredFirst ==
    /\ dpc = "recv" => discovered_receivers = AcceptedDevices
    /\ dpc = "done" =>
          \A i, j \in 1..Len(discovered_receivers) :
             LET a == discovered_receivers[i]
                 b == discovered_receivers[j]
             IN  a # b =>
                   /\ a \in AcceptedPairs
                   /\ b \in AcceptedPairs
                   /\ (FirstIndex(discovered_receivers, a) < FirstIndex(discovered_receivers, b))
                         <=> (FirstIndex(AcceptedDevices, a) < FirstIndex(AcceptedDevices, b))

\* a pass has returned two different devices
TwoDevicesReturned ==
    /\ dpc = "done"
    /\ Len(discovered_receivers) >= 2
    /\ discovered_receivers[1] # discovered_receivers[2]

\* C26: the M-SEARCH is transmitted exactly three times, whether or not a
\* transmission failed, and no datagram is received before the third.
ThreeSearchesFirst ==
    /\ [](msearch_sent <= 3)
    /\ []((dpc \in {"recv", "done"} /\ startFailure = "none") => msearch_sent = 3)
    /\ [](msearch_sent < 3 => (response_count = 0 /\ tested = {} /\ accepted = <<>>))
    /\ [][ (pending /\ ~pending') => msearch_sent = 3 ]_vars

\* responses are being received after a pass whose transmissions failed
ReceivingAfterFailedSend ==
    /\ msearch_failed
    /\ msearch_sent = 3
    /\ response_count > 0

\* the bind failed after the socket was created and the group joined
BindFailed == startFailure = "bind" /\ dpc = "done"

\* ------------------------------------------------------------------------
\* Properties of the discovery server
\* ------------------------------------------------------------------------

\* C12: bounded shutdown.  Once g_running is false the responder completes
\* at most one more recvfrom (one 1-second timeout), the announcer at most
\* one more 1-second sleep, and ssdpAdvertisementThread returns.
BoundedShutdown ==
    /\ [](recvAfterStop <= 1 /\ sleepsAfterStop <= 1)
    /\ [](~g_running => <>(apc = "returned"))

\* the thread has returned after the flag was cleared under a pending
\* recvfrom and a pending sleep
StoppedAfterOneWaitEach ==
    /\ apc = "returned"
    /\ rpc = "done"
    /\ recvAfterStop = 1
    /\ sleepsAfterStop = 1

\* C27: the first NOTIFY goes out before any sleep, every later one after
\* exactly 30 one-second increments, and an increment that begins is one
\* the flag allowed: at most one ends after the flag was cleared.
NotifyEveryThirtySleeps ==
    /\ [][ notify_count' = notify_count + 1
              => sleep_i = (IF notify_count = 0 THEN 0 ELSE 30) ]_vars
    /\ [][ sleep_i' = sleep_i + 1 => sleep_i < 30 ]_vars
    /\ [](sleepsAfterStop <= 1)

\* a second NOTIFY has been sent with the flag still set
SecondNotifySent == notify_count = 2 /\ g_running

\* C13: where the responder thread was started, ssdpAdvertisementThread
\* goes past the join only after the responder has exited, response_sock is
\* closed only after that, and the responder never uses the closed socket.
JoinBeforeClose ==
    /\ (rpc # "none" /\ apc \in {"closeResp", "returned"}) => rpc = "done"
    /\ (rpc # "none" /\ response_sock = "closed") => rpc = "done"
    /\ ~usedClosed

\* the thread has returned with the responder joined and the socket closed
ReturnedAfterJoin ==
    /\ apc = "returned"
    /\ rpc = "done"
    /\ response_sock = "closed"
    /\ Len(heard) > 0

\* a search request that names urn:screen-share:receiver
IsServiceSearch(d) == d.kind = "M-SEARCH" /\ d.st = "urn"

\* one response per service search of the sequence, to that search's source
AnswersTo(datagrams) ==
    LET searches == SelectSeq(datagrams, IsServiceSearch)
    IN  [i \in 1..Len(searches) |-> [to |-> searches[i].src, for |-> searches[i].id]]

\* C14: between two turns of its loop, and after it, the responder has sent
\* exactly one response for every M-SEARCH naming urn:screen-share:receiver
\* that recvfrom returned, to that datagram's source, and nothing for any
\* other datagram.
OneUnicastResponsePerSearch ==
    rpc \in {"loop", "recv", "done"} => sentResponses = AnswersTo(heard)

\* C33: whatever the moment at which the flag is cleared, the responder
\* sends at most one response and the announcer at most one NOTIFY after it:
\* each of them may be between its test of the flag and its sendto, and
\* tests the flag again before the next one.
AtMostOneSendAfterStop ==
    /\ sentAfterStop.responses <= 1
    /\ sentAfterStop.notifies <= 1

\* a response and a NOTIFY both went out after the flag was cleared, another
\* search has arrived since and waits unanswered, and both threads have ended
BothSentAfterStop ==
    /\ sentAfterStop = [responses |-> 1, notifies |-> 1]
    /\ inbox = << MSearchSeen >>
    /\ apc = "closeResp"
    /\ rpc = "done"

\* the M-SEARCH datagrams among those recvfrom has returned
SearchesHeard == SelectSeq(heard, LAMBDA d : d.kind = "M-SEARCH")

\* C34: discovery traffic does not amplify itself.  Every response the
\* responder has sent answers an M-SEARCH it received, never a success
\* response or a NOTIFY (its own announcements included), so it has sent no
\* more responses than it has received M-SEARCH datagrams.
NoAmplification ==
    /\ \A i \in 1..Len(sentResponses) :
          \E j \in 1..Len(SearchesHeard) : SearchesHeard[j].id = sentResponses[i].for
    /\ Len(sentResponses) <= Len(SearchesHeard)

\* C36: every device of the list has a tcp_port in 1..65535, and the TCP
\* connection that admitted it was made to exactly the address and port the
\* list records, whatever port string the LOCATION header carried.
PortRecordedIsPortTested ==
    \A i \in 1..Len(discovered_receivers) :
        /\ discovered_receivers[i].tcp_port \in 1..65535
        /\ << discovered_receivers[i].ip_address, discovered_receivers[i].tcp_port >>
              \in established
====
